---- MODULE Spec2Model ----
(***************************************************************************)
(* Model of the Artemis bot's dispatch runtime: the EventManager registry  *)
(* (artemis/events/manager.py), the prefix-command parser                  *)
(* (artemis/commands/parser.py, artemis/utils/helpers.py), the plugin      *)
(* loader (artemis/plugin/loader.py) with the register bodies of the       *)
(* shipped plugins, the EventListener builder (artemis/events/listener.py),*)
(* the bot's handlers (artemis/bot.py) and the JSON store                  *)
(* (artemis/storage/json_store.py).                                        *)
(*                                                                         *)
(* Python values are encoded as follows.  None is the string "None" for    *)
(* string-valued fields and callbacks, and the empty tuple for the integer *)
(* field `periodic` (an interval n is the tuple <<n>>).  A str is either a *)
(* TLA+ string (names, keywords, tokens) or, in the parser, a sequence of  *)
(* one-character strings.  A help text is a record [kind, text] with kind  *)
(* "none", "str" or "fn" (a callable).  A dict is a function whose DOMAIN   *)
(* is the set of keys present.                                             *)
(***************************************************************************)
EXTENDS Integers, Sequences, FiniteSets, TLC

VARIABLES
    phase,              \* host lifecycle position: "load" (bot.run before super().run) or "run"
    event_listeners,    \* EventManager.event_listeners: event name -> list of callbacks
    command_listeners,  \* EventManager.command_listeners: keyword -> list of <<callback, guild_id, help_text>>
    command_help,       \* EventManager.command_help: keyword -> help text
    periodic_tasks,     \* EventManager.periodic_tasks: list of <<interval, callback>>
    registrations,      \* history: the descriptors passed to add_listener, in call order
    evt,                \* the dispatch_event call in progress / last finished
    cmd,                \* the dispatch_command call in progress / last finished
    prefix,             \* CommandParser.prefix
    content,            \* the message content handed to CommandParser.parse
    parsed,             \* what parse returned for content
    parse_pc,           \* "received": content not parsed yet; "parsed": parse has returned
    plugins_dir,        \* the plugins directory as the file system and importer present it
    plugins,            \* load_plugins' local list: what discover_plugins returned
    loaded_plugins,     \* PluginLoader.loaded_plugins
    load_pc,            \* load_plugins: "start", "registering", "done"
    register_log,       \* history: the register() calls made, in order, with their outcome
    _periodic_task_handles, \* EventManager._periodic_task_handles: list of task ids
    tasks,              \* the asyncio tasks created for _run_periodic, by task id
    now,                \* the event loop's clock, in whole seconds
    starts,             \* number of start_periodic_tasks calls made so far
    stops,              \* number of stop_periodic_tasks calls made so far
    testing_mode,       \* bot.config.TESTING_MODE
    call_idx,           \* register() of a shipped plugin: statements executed so far
    scan_idx,           \* discover_plugins over src/plugins: directories scanned so far
    file,               \* JSONStore: the file of one namespace
    ops,                \* JSONStore: the get/set/delete coroutines, by caller
    msg,                \* the on_message handler in progress / last finished
    builder,            \* the EventListener a builder chain is constructing
    built,              \* history: the add_command keywords of each registered chain
    shutdown            \* ArtemisBot.close in progress, and the platform connection

parseVars == <<prefix, content, parsed, parse_pc>>
loadVars == <<plugins_dir, plugins, loaded_plugins, load_pc, register_log>>
periodicVars == <<_periodic_task_handles, tasks, now, starts, stops>>
shipVars == <<testing_mode, call_idx, scan_idx>>
storeVars == <<file, ops>>
buildVars == <<builder, built>>
restVars == <<shipVars, storeVars, buildVars, msg, shutdown>>

vars == <<phase, event_listeners, command_listeners, command_help, periodic_tasks,
          registrations, evt, cmd, parseVars, loadVars, periodicVars, restVars>>

None == "None"
NoInterval == <<>>

\* ---------------------------------------------------------------- bounds
MaxEvtReg == 3
MaxCmdReg == 2
MaxLen == 4

\* ------------------------------------------------------- Python helpers
\* truth value of an Optional[str]
TruthyStr(s) == s /= None /\ s /= ""
\* truth value of an Optional[int] encoded as <<>> / <<n>>
TruthyInt(p) == p /= NoInterval /\ p[1] /= 0
\* truth value of an Optional[Union[str, Callable]]
TruthyHelp(h) == h.kind = "fn" \/ (h.kind = "str" /\ h.text /= "")

NoHelp == [kind |-> "none", text |-> ""]

\* dict[k] = [] when k is not yet a key
SetDefault(d, k) ==
    IF k \in DOMAIN d THEN d
    ELSE [x \in (DOMAIN d) \cup {k} |-> IF x = k THEN <<>> ELSE d[x]]

\* dict[k] = v
DictPut(d, k, v) == [x \in (DOMAIN d) \cup {k} |-> IF x = k THEN v ELSE d[x]]

EmptyDict == [x \in {} |-> <<>>]

\* list.append
ListAppend(list, x) == Append(list, x)

\* ------------------------------------------------------- EventListener
EventListener(e, c, p, cb, g, h) ==
    [event_name |-> e, command |-> c, periodic |-> p, callback |-> cb,
     guild_id |-> g, help_text |-> h]

\* ------------------------------------------- EventManager.add_listener
\* variant: the callback is put at the head of the list
EventListenersAfter_Prepend(el, l) ==
    IF TruthyStr(l.event_name)
    THEN LET d == SetDefault(el, l.event_name)
         IN  IF l.callback /= None
             THEN [d EXCEPT ![l.event_name] = <<l.callback>> \o @]
             ELSE d
    ELSE el

EventListenersAfter(el, l) ==
    IF TruthyStr(l.event_name)
    THEN LET d == SetDefault(el, l.event_name)
         IN  IF l.callback /= None
             THEN [d EXCEPT ![l.event_name] = ListAppend(@, l.callback)]
             ELSE d
    ELSE el

CommandListenersAfter(cl, l) ==
    IF TruthyStr(l.command)
    THEN LET d == SetDefault(cl, l.command)
         IN  IF l.callback /= None
             THEN [d EXCEPT ![l.command] =
                      ListAppend(@, <<l.callback, l.guild_id, l.help_text>>)]
             ELSE d
    ELSE cl

\* variant: help already stored for the keyword is kept
CommandHelpAfter_FirstWins(ch, l) ==
    IF TruthyStr(l.command) /\ l.callback /= None /\ TruthyHelp(l.help_text)
       /\ l.command \notin DOMAIN ch
    THEN DictPut(ch, l.command, l.help_text)
    ELSE ch

CommandHelpAfter(ch, l) ==
    IF TruthyStr(l.command) /\ l.callback /= None /\ TruthyHelp(l.help_text)
    THEN DictPut(ch, l.command, l.help_text)
    ELSE ch

\* variant: the periodic binding is an elif of the event and command bindings
PeriodicTasksAfter_Exclusive(pt, l) ==
    IF TruthyInt(l.periodic) /\ l.callback /= None
       /\ ~TruthyStr(l.event_name) /\ ~TruthyStr(l.command)
    THEN ListAppend(pt, <<l.periodic[1], l.callback>>)
    ELSE pt

PeriodicTasksAfter(pt, l) ==
    IF TruthyInt(l.periodic) /\ l.callback /= None
    THEN ListAppend(pt, <<l.periodic[1], l.callback>>)
    ELSE pt

add_listener(l) ==
    /\ event_listeners' = EventListenersAfter(event_listeners, l)
    /\ command_listeners' = CommandListenersAfter(command_listeners, l)
    /\ command_help' = CommandHelpAfter(command_help, l)
    /\ periodic_tasks' = PeriodicTasksAfter(periodic_tasks, l)
    /\ registrations' = Append(registrations, l)

\* the descriptors registered so far whose callback is bound to event e
RegisteredForEvent(e) ==
    LET hit(l) == l.event_name = e /\ l.callback /= None
        sel == SelectSeq(registrations, hit)
    IN  [i \in 1..Len(sel) |-> sel[i].callback]

\* ---------------------------------------------------- callback outcomes
\* a callback either returns or raises an Exception
Outcomes == {"ok", "raise"}

NoCall == [pc |-> "idle", name |-> None, idx |-> 0, invoked |-> <<>>, outcomes |-> <<>>]

\* reply: the texts passed to message.reply; producer: "none" (no help producer
\* called), "returned" or "raised"; produced: what the producer returned;
\* raised_by: what made the call end with an exception ("none" while it has not);
\* not_found: the "Command ... not found in registered commands" warning was logged
NoCmdCall ==
    [pc |-> "idle", name |-> None, args |-> <<>>, guild |-> None, idx |-> 0,
     invoked |-> <<>>, outcomes |-> <<>>, reply |-> <<>>,
     producer |-> "none", produced |-> "", raised_by |-> "none",
     not_found |-> FALSE]

\* ----------------------------------------- EventManager.dispatch_event
\* variant: every remaining callback is started at once, none is awaited
\* before the next
EventLoop_StartAll(name, idx, invoked, outcomes) ==
    IF name \in DOMAIN event_listeners /\ idx < Len(event_listeners[name])
    THEN [pc |-> "in_callback", name |-> name, idx |-> Len(event_listeners[name]),
          invoked |-> invoked \o SubSeq(event_listeners[name], idx + 1,
                                        Len(event_listeners[name])),
          outcomes |-> outcomes]
    ELSE [pc |-> "returned", name |-> name, idx |-> idx,
          invoked |-> invoked, outcomes |-> outcomes]

\* The for loop over the live list self.event_listeners[name]: idx items
\* have been consumed; the next one is invoked, or the loop is exhausted and
\* the call returns.
EventLoop(name, idx, invoked, outcomes) ==
    IF name \in DOMAIN event_listeners /\ idx < Len(event_listeners[name])
    THEN [pc |-> "in_callback", name |-> name, idx |-> idx + 1,
          invoked |-> Append(invoked, event_listeners[name][idx + 1]),
          outcomes |-> outcomes]
    ELSE [pc |-> "returned", name |-> name, idx |-> idx,
          invoked |-> invoked, outcomes |-> outcomes]

\* variant: the lookup creates the key, as a defaultdict would
dispatch_event_DefaultDict(e) ==
    /\ phase = "run"
    /\ evt.pc /= "in_callback"
    /\ evt' = EventLoop(e, 0, <<>>, <<>>)
    /\ event_listeners' = SetDefault(event_listeners, e)
    /\ UNCHANGED <<phase, command_listeners, command_help,
                   periodic_tasks, registrations, cmd, parseVars, loadVars, periodicVars, restVars>>

\* the call: `if event_name in self.event_listeners: for callback in ...`
dispatch_event(e) ==
    /\ phase = "run"
    /\ evt.pc /= "in_callback"
    /\ evt' = EventLoop(e, 0, <<>>, <<>>)
    /\ UNCHANGED <<phase, event_listeners, command_listeners, command_help,
                   periodic_tasks, registrations, cmd, parseVars, loadVars, periodicVars, restVars>>

\* variant: no try/except around the callback, a raise leaves the call
EventCallbackEnds_Uncaught(o) ==
    /\ evt.pc = "in_callback"
    /\ evt' = IF o = "raise"
              THEN [evt EXCEPT !.pc = "raised", !.outcomes = Append(@, o)]
              ELSE EventLoop(evt.name, evt.idx, evt.invoked, Append(evt.outcomes, o))
    /\ UNCHANGED <<phase, event_listeners, command_listeners, command_help,
                   periodic_tasks, registrations, cmd, parseVars, loadVars, periodicVars, restVars>>

\* the awaited callback returns, or raises and `except Exception` logs it;
\* either way the loop goes on to the next callback
EventCallbackEnds(o) ==
    /\ evt.pc = "in_callback"
    /\ evt' = EventLoop(evt.name, evt.idx, evt.invoked, Append(evt.outcomes, o))
    /\ UNCHANGED <<phase, event_listeners, command_listeners, command_help,
                   periodic_tasks, registrations, cmd, parseVars, loadVars, periodicVars, restVars>>

\* ------------------------------------------------------- host lifecycle
\* ArtemisBot.run: load_plugins() has returned, super().run(token) connects
Connect ==
    /\ phase = "load"
    /\ phase' = "run"
    /\ UNCHANGED <<event_listeners, command_listeners, command_help,
                   periodic_tasks, registrations, evt, cmd, parseVars, loadVars, periodicVars, restVars>>

\* Optional[ParsedCommand]: None
NoParsed == [none |-> TRUE, command |-> <<>>, args |-> <<>>, content |-> <<>>]

InitParser ==
    /\ prefix = <<"!">>
    /\ content = <<>>
    /\ parsed = NoParsed
    /\ parse_pc = "received"

InitLoader ==
    /\ plugins_dir = [exists |-> TRUE, entries |-> <<>>]
    /\ plugins = <<>>
    /\ loaded_plugins = <<>>
    /\ load_pc = "start"
    /\ register_log = <<>>

\* ---------------------------------------------- the rest of the bot's state
\* the callers that use the store at the same time
Procs == {1, 2}

\* a dict with no key
NoData == [k \in {} |-> ""]

\* the namespace file does not exist
MissingFile == [state |-> "missing", doc |-> NoData]

\* Python values are records of their type and repr; None:
NoneV == [type |-> "NoneType", repr |-> "None"]

\* no store operation.  op is "get", "set" or "delete"; data is the local
\* dict; result is "True" or "False" for set and delete and "value" for get,
\* whose return value is got; n counts the operations of this caller.
\* History: was holds what get would have returned for every key when the
\* operation began; alone says that no other operation has taken a step
\* since this one began.
IdleOp ==
    [pc |-> "idle", op |-> "none", key |-> "", value |-> NoneV,
     data |-> NoData, result |-> "none", got |-> NoneV, n |-> 0,
     was |-> NoData, alone |-> TRUE]

\* no message handled yet: commands and events count the dispatch_command
\* and dispatch_event("message") calls the handler has made
NoMsg == [pc |-> "idle", bot |-> FALSE, commands |-> 0, events |-> 0]

\* EventListener.new(): every field at its default
NewListener == EventListener(None, None, NoInterval, None, None, NoHelp)

NoBuilder == [open |-> FALSE, listener |-> NewListener, chain |-> <<>>]

\* close has not been called; the connection is open
NotClosing == [pc |-> "open", presence |-> "none", connection |-> "open"]

InitRest ==
    /\ testing_mode = FALSE
    /\ call_idx = 0
    /\ scan_idx = 0
    /\ file = MissingFile
    /\ ops = [p \in Procs |-> IdleOp]
    /\ msg = NoMsg
    /\ builder = NoBuilder
    /\ built = <<>>
    /\ shutdown = NotClosing

\* EventManager.__init__
InitTables ==
    /\ phase = "load"
    /\ event_listeners = EmptyDict
    /\ command_listeners = EmptyDict
    /\ command_help = EmptyDict
    /\ periodic_tasks = <<>>
    /\ registrations = <<>>
    /\ evt = NoCall
    /\ cmd = NoCmdCall
    /\ _periodic_task_handles = <<>>
    /\ tasks = <<>>
    /\ now = 0
    /\ starts = 0
    /\ stops = 0

\* ArtemisBot.__init__: the registry and everything else at its start
InitRegistry == InitTables /\ InitRest

\* ============================ event dispatch: registrations, then events
Callbacks == {"cbA", "cbB"}
EventNames == {"message", "ready"}
DispatchedEvents == EventNames \cup {"guildCreate"}

EvtDescriptors ==
    {EventListener(e, None, NoInterval, cb, None, NoHelp) :
        e \in EventNames \cup {None}, cb \in Callbacks \cup {None}}

\* a plugin's register() submits a descriptor during the load phase
RegisterEventListener(l) ==
    /\ phase = "load"
    /\ Len(registrations) < MaxEvtReg
    /\ add_listener(l)
    /\ UNCHANGED <<phase, evt, cmd, parseVars, loadVars, periodicVars, restVars>>

InitEvt == InitRegistry /\ InitParser /\ InitLoader

NextEvt ==
    \/ \E l \in EvtDescriptors : RegisterEventListener(l)
    \/ Connect
    \/ \E e \in DispatchedEvents : dispatch_event(e)
    \/ \E o \in Outcomes : EventCallbackEnds(o)

SpecEvt == InitEvt /\ [][NextEvt]_vars

\* C1: if a callback raises during dispatch_event, every callback registered
\* after it for the same event is still invoked and the call returns normally
\* (it never ends by propagating the failure).
DispatchEventIsolatesFailure ==
    \A k \in 1..Len(evt.outcomes) :
        evt.outcomes[k] = "raise" =>
            LET reg == RegisteredForEvent(evt.name)
            IN  /\ evt.pc \in {"in_callback", "returned"}
                /\ k < Len(reg) => Len(evt.invoked) > k
                /\ evt.pc = "returned" =>
                       /\ Len(evt.invoked) = Len(reg)
                       /\ \A j \in (k + 1)..Len(reg) : evt.invoked[j] = reg[j]

\* witness of C1: a returned call in which a callback raised and a later one ran
DispatchEventIsolatesFailureWitness ==
    /\ evt.pc = "returned"
    /\ \E k \in 1..Len(evt.outcomes) :
           evt.outcomes[k] = "raise" /\ k < Len(evt.invoked)

\* C2: dispatch_event(E) invokes the callbacks registered for E in exactly
\* their registration order, once per registration, and none registered only
\* for another event.
DispatchEventRegistrationOrder ==
    LET reg == RegisteredForEvent(evt.name)
    IN  /\ evt.pc = "returned" => evt.invoked = reg
        /\ evt.pc = "in_callback" =>
               /\ Len(evt.invoked) <= Len(reg)
               /\ evt.invoked = SubSeq(reg, 1, Len(evt.invoked))

\* witness of C2: two different callbacks of one event ran in order while a
\* callback of another event was registered and not run
DispatchEventRegistrationOrderWitness ==
    /\ evt.pc = "returned"
    /\ Len(evt.invoked) = 2
    /\ evt.invoked[1] /= evt.invoked[2]
    /\ \E i \in 1..Len(registrations) :
           /\ registrations[i].event_name \in EventNames \ {evt.name}
           /\ registrations[i].callback /= None

\* ======================================================= command dispatch
\* the descriptors registered so far that bind a callback to keyword c; the
\* p-th of them is entry p of command_listeners[c]
RegisteredForCommand(c) ==
    LET hit(l) == l.command = c /\ l.callback /= None
    IN  SelectSeq(registrations, hit)

\* variant: only a trailing -help token counts
HasHelpFlag_Trailing(args) == Len(args) > 0 /\ args[Len(args)] = "-help"

\* `parsed_args and "-help" in parsed_args`
HasHelpFlag(args) == Len(args) > 0 /\ \E i \in 1..Len(args) : args[i] = "-help"

\* variant: a context without guild passes every filter
SkippedByGuildFilter_NoGuildPasses(filter_guild_id, guild_id) ==
    filter_guild_id /= None /\ guild_id /= None /\ guild_id /= filter_guild_id

\* variant: the filter is compared without testing that it is set
SkippedByGuildFilter_Unset(filter_guild_id, guild_id) ==
    guild_id /= filter_guild_id

\* `if filter_guild_id is not None and guild_id != filter_guild_id: continue`
SkippedByGuildFilter(filter_guild_id, guild_id) ==
    filter_guild_id /= None /\ guild_id /= filter_guild_id

\* positions after idx of command_listeners[name] that the filter lets through
PassingAfter(name, guild, idx) ==
    {p \in (idx + 1)..Len(command_listeners[name]) :
        ~SkippedByGuildFilter(command_listeners[name][p][2], guild)}

Min(S) == CHOOSE x \in S : \A y \in S : x <= y

\* The for loop over self.command_listeners[name] from position idx on:
\* filtered entries are skipped, the next passing one is invoked, or the loop
\* is exhausted and the call returns.  A keyword that is not a key of
\* command_listeners is logged as not found.
CommandLoop(c, idx) ==
    IF c.name \in DOMAIN command_listeners
    THEN IF PassingAfter(c.name, c.guild, idx) /= {}
         THEN LET p == Min(PassingAfter(c.name, c.guild, idx))
              IN  [c EXCEPT !.pc = "in_callback", !.idx = p, !.invoked = Append(@, p)]
         ELSE [c EXCEPT !.pc = "returned"]
    ELSE [c EXCEPT !.pc = "returned", !.not_found = TRUE]

\* what a help producer (a sync or async callable) does when called
ProducerOutcomes ==
    {[raised |-> FALSE, text |-> "dynamic help"],
     [raised |-> FALSE, text |-> ""],
     [raised |-> TRUE, text |-> ""]}

\* EventManager._handle_help with an EventData that carries the message:
\* po is what the producer does if one is called, ro whether reply() succeeds.
\* The result is the text passed to message.reply.
HelpText_StrOnly(command, po) ==
    IF command \in DOMAIN command_help
    THEN LET help_source == command_help[command]
         IN  IF help_source.kind = "str" THEN help_source.text ELSE ""
    ELSE ""

HelpText(command, po) ==
    IF command \in DOMAIN command_help
    THEN LET help_source == command_help[command]
         IN  IF help_source.kind = "str" THEN help_source.text
             ELSE IF help_source.kind = "fn" /\ ~po.raised THEN po.text
             ELSE ""
    ELSE ""

HelpReply(command, po) ==
    IF HelpText(command, po) /= ""
    THEN [generic |-> FALSE, text |-> HelpText(command, po)]
    ELSE [generic |-> TRUE, text |-> command]

\* a help producer is registered for the command and gets called
ProducerCalled(command) ==
    command \in DOMAIN command_help /\ command_help[command].kind = "fn"

\* the call frame after help resolution, before the reply is sent
HelpResolved(c, po) ==
    [c EXCEPT !.producer = IF ~ProducerCalled(c.name) THEN "none"
                           ELSE IF po.raised THEN "raised" ELSE "returned",
              !.produced = IF ProducerCalled(c.name) /\ ~po.raised THEN po.text ELSE ""]

\* variant: no try/except around the producer call, its failure leaves
\* _handle_help before any reply
_handle_help_ProducerUncaught(c, po, ro) ==
    IF ProducerCalled(c.name) /\ po.raised
    THEN [HelpResolved(c, po) EXCEPT !.pc = "raised", !.raised_by = "producer"]
    ELSE IF ro = "ok"
    THEN [HelpResolved(c, po) EXCEPT !.pc = "returned",
                                     !.reply = Append(@, HelpReply(c.name, po))]
    ELSE [HelpResolved(c, po) EXCEPT !.pc = "raised", !.raised_by = "reply",
                                     !.reply = Append(@, HelpReply(c.name, po))]

\* message.reply is awaited once with the resolved text; when it fails the
\* exception leaves _handle_help
_handle_help(c, po, ro) ==
    IF ro = "ok"
    THEN [HelpResolved(c, po) EXCEPT !.pc = "returned",
                                     !.reply = Append(@, HelpReply(c.name, po))]
    ELSE [HelpResolved(c, po) EXCEPT !.pc = "raised", !.raised_by = "reply",
                                     !.reply = Append(@, HelpReply(c.name, po))]

\* the call dispatch_command(command, parsed_args, event_data) made by
\* on_message, event_data.guild being message.guild (None outside a guild)
dispatch_command(command, parsed_args, guild) ==
    /\ phase = "run"
    /\ cmd.pc /= "in_callback"
    /\ LET c == [NoCmdCall EXCEPT !.name = command, !.args = parsed_args,
                                  !.guild = guild]
       IN  IF HasHelpFlag(parsed_args)
           THEN \E po \in ProducerOutcomes, ro \in Outcomes :
                    cmd' = _handle_help(c, po, ro)
           ELSE cmd' = CommandLoop(c, 0)
    /\ UNCHANGED <<phase, event_listeners, command_listeners, command_help,
                   periodic_tasks, registrations, evt, parseVars, loadVars, periodicVars, restVars>>

\* variant: no try/except around the callback, a raise leaves the call
CommandCallbackEnds_Uncaught(o) ==
    /\ cmd.pc = "in_callback"
    /\ cmd' = IF o = "raise"
              THEN [cmd EXCEPT !.pc = "raised", !.outcomes = Append(@, o),
                               !.raised_by = "callback"]
              ELSE CommandLoop([cmd EXCEPT !.outcomes = Append(@, o)], cmd.idx)
    /\ UNCHANGED <<phase, event_listeners, command_listeners, command_help,
                   periodic_tasks, registrations, evt, parseVars, loadVars, periodicVars, restVars>>

\* the awaited callback returns, or raises and `except Exception` logs it;
\* either way the loop goes on to the next entry
CommandCallbackEnds(o) ==
    /\ cmd.pc = "in_callback"
    /\ cmd' = CommandLoop([cmd EXCEPT !.outcomes = Append(@, o)], cmd.idx)
    /\ UNCHANGED <<phase, event_listeners, command_listeners, command_help,
                   periodic_tasks, registrations, evt, parseVars, loadVars, periodicVars, restVars>>

Guilds == {"G1", "G2"}
HelpStr == [kind |-> "str", text |-> "usage"]
HelpFn == [kind |-> "fn", text |-> "get_help"]

CmdDescriptors ==
    {EventListener(None, "ping", NoInterval, cb, g, NoHelp) :
        cb \in Callbacks, g \in Guilds \cup {None}}
    \cup {EventListener(None, "ping", NoInterval, "cbA", None, h) : h \in {HelpStr, HelpFn}}
    \cup {EventListener(None, "pong", NoInterval, "cbA", None, NoHelp),
          EventListener(None, "pong", NoInterval, None, None, HelpStr)}

DispatchedCommands == {"ping", "pong", "nope"}
ArgLists == {<<>>, <<"x">>, <<"x", "-help">>, <<"-help", "x">>}

RegisterCommandListener(l) ==
    /\ phase = "load"
    /\ Len(registrations) < MaxCmdReg
    /\ add_listener(l)
    /\ UNCHANGED <<phase, evt, cmd, parseVars, loadVars, periodicVars, restVars>>

InitCmd == InitRegistry /\ InitParser /\ InitLoader

NextCmd ==
    \/ \E l \in CmdDescriptors : RegisterCommandListener(l)
    \/ Connect
    \/ \E c \in DispatchedCommands, a \in ArgLists, g \in Guilds \cup {None} :
           dispatch_command(c, a, g)
    \/ \E o \in Outcomes : CommandCallbackEnds(o)

SpecCmd == InitCmd /\ [][NextCmd]_vars

\* the registrations of the dispatched keyword that were invoked
InvokedListeners == {cmd.invoked[i] : i \in 1..Len(cmd.invoked)}

\* C3: a command listener registered with scope S is invoked only when the
\* dispatch context carries a guild whose id is S; with another guild or with
\* no guild it is skipped.
ScopedListenerOnlyInItsGuild ==
    LET reg == RegisteredForCommand(cmd.name)
    IN  /\ \A p \in InvokedListeners :
               reg[p].guild_id /= None =>
                   cmd.guild /= None /\ cmd.guild = reg[p].guild_id
        /\ cmd.pc = "returned" =>
               \A p \in 1..Len(reg) :
                   (reg[p].guild_id /= None /\ reg[p].guild_id /= cmd.guild)
                       => p \notin InvokedListeners

\* witness of C3: a finished dispatch that ran a listener scoped to the
\* context's guild and skipped one scoped to another guild
ScopedListenerOnlyInItsGuildWitness ==
    LET reg == RegisteredForCommand(cmd.name)
    IN  /\ cmd.pc = "returned"
        /\ cmd.guild /= None
        /\ \E p \in InvokedListeners : reg[p].guild_id = cmd.guild
        /\ \E p \in 1..Len(reg) :
               reg[p].guild_id \in Guilds \ {cmd.guild} /\ p \notin InvokedListeners

\* witness of C3, no scope: a finished dispatch without guild that skipped a
\* scoped listener
ScopedListenerSkippedWithoutGuild ==
    LET reg == RegisteredForCommand(cmd.name)
    IN  /\ cmd.pc = "returned"
        /\ cmd.guild = None
        /\ ~HasHelpFlag(cmd.args)
        /\ \E p \in 1..Len(reg) : reg[p].guild_id /= None

\* the registrations of keyword c that a dispatch in guild g lets through
ExpectedListeners(c, g) ==
    {p \in 1..Len(RegisteredForCommand(c)) :
        RegisteredForCommand(c)[p].guild_id \in {None, g}}

\* C4 as stated: an unscoped command listener is invoked on every dispatch of
\* its keyword whatever the context scope (and a listener scoped to S exactly
\* on the dispatches in scope S).
UnscopedListenerAlwaysInvoked ==
    cmd.pc = "returned" => InvokedListeners = ExpectedListeners(cmd.name, cmd.guild)

\* C4 amended: on every dispatch of its keyword whose arguments do not contain
\* -help, an unscoped listener is invoked whatever the context scope, and a
\* listener scoped to S is invoked exactly when the context scope is S.
UnscopedListenerInvokedUnlessHelp ==
    (cmd.pc = "returned" /\ ~HasHelpFlag(cmd.args)) =>
        InvokedListeners = ExpectedListeners(cmd.name, cmd.guild)

\* witness of C4: A unscoped and B scoped to S on one keyword; a dispatch in S
\* ran both
UnscopedAndScopedBothInvoked ==
    LET reg == RegisteredForCommand(cmd.name)
    IN  /\ cmd.pc = "returned"
        /\ Len(reg) = 2
        /\ \E a, b \in 1..2 :
               /\ reg[a].guild_id = None
               /\ reg[b].guild_id \in Guilds
               /\ cmd.guild = reg[b].guild_id
        /\ InvokedListeners = {1, 2}

\* witness of C4, other scope: A unscoped and B scoped to S; a dispatch in
\* T /= S ran A alone
UnscopedAloneInvokedInOtherGuild ==
    LET reg == RegisteredForCommand(cmd.name)
    IN  /\ cmd.pc = "returned"
        /\ Len(reg) = 2
        /\ \E a, b \in 1..2 :
               /\ reg[a].guild_id = None
               /\ reg[b].guild_id \in Guilds
               /\ cmd.guild \in Guilds \ {reg[b].guild_id}
               /\ InvokedListeners = {a}

\* C5: a dispatch_command call whose parsed arguments contain the -help token
\* invokes no bound command callback, whatever the keyword and its listeners.
HelpInvokesNoCallback ==
    (\E i \in 1..Len(cmd.args) : cmd.args[i] = "-help") =>
        /\ cmd.invoked = <<>>
        /\ cmd.pc /= "in_callback"

\* witness of C5: a finished -help dispatch of a keyword with a listener that
\* the context's scope would let through
HelpInvokesNoCallbackWitness ==
    /\ cmd.pc = "returned"
    /\ \E i \in 1..Len(cmd.args) : cmd.args[i] = "-help"
    /\ ExpectedListeners(cmd.name, cmd.guild) /= {}

\* C6: if a command callback raises during dispatch_command, every later
\* callback bound to the same keyword that passes the scope filter is still
\* invoked.
DispatchCommandIsolatesFailure ==
    \A k \in 1..Len(cmd.outcomes) :
        cmd.outcomes[k] = "raise" =>
            LET later == {p \in ExpectedListeners(cmd.name, cmd.guild) :
                              p > cmd.invoked[k]}
            IN  /\ cmd.pc \in {"in_callback", "returned"}
                /\ later /= {} => Len(cmd.invoked) > k
                /\ cmd.pc = "returned" => later \subseteq InvokedListeners

\* witness of C6: a finished dispatch in which a callback raised and a later
\* one of the same keyword ran
DispatchCommandIsolatesFailureWitness ==
    /\ cmd.pc = "returned"
    /\ \E k \in 1..Len(cmd.outcomes) :
           cmd.outcomes[k] = "raise" /\ k < Len(cmd.invoked)

\* C7: dispatch_command never propagates a failure to its caller, whichever
\* path it takes (raising callbacks, unknown keyword, the help path with its
\* producer and the delivery of the help reply).
DispatchCommandNeverPropagates == cmd.pc /= "raised"

\* ========================================================= command parser
\* A str is a sequence of one-character strings.
IsSpace(ch) == ch \in {" ", "\t"}

\* str.lower on the letters that occur
LowerChar(ch) ==
    CASE ch = "A" -> "a"
      [] ch = "B" -> "b"
      [] ch = "F" -> "f"
      [] OTHER -> ch

Lower(str) == [i \in 1..Len(str) |-> LowerChar(str[i])]

\* variant: the prefix is looked for anywhere in the content
StartsWith_Contains(str, pre) ==
    \E i \in 0..(Len(str) - Len(pre)) : SubSeq(str, i + 1, i + Len(pre)) = pre

\* str.startswith
StartsWith(str, pre) ==
    Len(str) >= Len(pre) /\ SubSeq(str, 1, Len(pre)) = pre

RECURSIVE LStrip(_)
LStrip(str) ==
    IF str /= <<>> /\ IsSpace(Head(str)) THEN LStrip(Tail(str)) ELSE str

RECURSIVE RStrip(_)
RStrip(str) ==
    IF str /= <<>> /\ IsSpace(str[Len(str)])
    THEN RStrip(SubSeq(str, 1, Len(str) - 1))
    ELSE str

\* str.strip()
Strip(str) == LStrip(RStrip(str))

\* the first token of a string that does not start with whitespace
RECURSIVE FirstToken(_)
FirstToken(str) ==
    IF str = <<>> \/ IsSpace(Head(str)) THEN <<>>
    ELSE <<Head(str)>> \o FirstToken(Tail(str))

\* str.split(): split on runs of whitespace, no empty tokens
RECURSIVE Split(_)
Split(str) ==
    LET rest == LStrip(str)
    IN  IF rest = <<>> THEN <<>>
        ELSE LET tok == FirstToken(rest)
             IN  <<tok>> \o Split(SubSeq(rest, Len(tok) + 1, Len(rest)))

\* helpers.split_command
split_command(str, pre) ==
    IF ~StartsWith(str, pre) THEN <<>>
    ELSE Split(Strip(SubSeq(str, Len(pre) + 1, Len(str))))

ParsedCommand(command, args, raw) ==
    [none |-> FALSE, command |-> command, args |-> args, content |-> raw]

\* variant: the whole content is lower-cased before it is split
parse_LowerAll(str, pre) ==
    IF ~StartsWith(str, pre) THEN NoParsed
    ELSE LET parts == split_command(Lower(str), Lower(pre))
         IN  IF parts = <<>> THEN NoParsed
             ELSE ParsedCommand(parts[1], Tail(parts), str)

\* CommandParser.parse
parse(str, pre) ==
    IF ~StartsWith(str, pre) THEN NoParsed
    ELSE LET parts == split_command(str, pre)
         IN  IF parts = <<>> THEN NoParsed
             ELSE ParsedCommand(Lower(parts[1]), Tail(parts), str)

Alphabet == {"!", " ", "a", "B"}
Example == <<"!", "f", "o", "o", " ", "b", "a", "r", " ", "b", "a", "z">>
Contents ==
    UNION {[1..n -> Alphabet] : n \in 0..MaxLen}
    \cup {Example, <<"!", "\t", "B", "\t">>, <<"n", "o", "-", "p", "r", "e", "f", "i", "x">>}
Prefixes == {<<"!">>, <<"!", "!">>, <<"a", "!">>}

\* on_message: self.command_parser.parse(message.content)
Parse ==
    /\ parse_pc = "received"
    /\ parsed' = parse(content, prefix)
    /\ parse_pc' = "parsed"
    /\ UNCHANGED <<prefix, content>>
    /\ UNCHANGED <<phase, event_listeners, command_listeners, command_help,
                   periodic_tasks, registrations, evt, cmd, loadVars, periodicVars, restVars>>

\* the next message arrives
Receive(str) ==
    /\ parse_pc = "parsed"
    /\ content' = str
    /\ parsed' = NoParsed
    /\ parse_pc' = "received"
    /\ UNCHANGED prefix
    /\ UNCHANGED <<phase, event_listeners, command_listeners, command_help,
                   periodic_tasks, registrations, evt, cmd, loadVars, periodicVars, restVars>>

InitParse ==
    /\ InitRegistry
    /\ InitLoader
    /\ prefix \in Prefixes
    /\ content \in Contents
    /\ parsed = NoParsed
    /\ parse_pc = "received"

NextParse ==
    \/ Parse
    \/ \E str \in Contents : Receive(str)

SpecParse == InitParse /\ [][NextParse]_vars

\* --- what the claims call the tokens of a content, stated on positions
HasPrefix == 
    /\ Len(content) >= Len(prefix)
    /\ \A i \in 1..Len(prefix) : content[i] = prefix[i]

Blank(i) == content[i] \in {" ", "\t"}

\* positions after the prefix where a token starts / the position where the
\* token starting at i ends
TokenStarts ==
    {i \in (Len(prefix) + 1)..Len(content) :
        ~Blank(i) /\ (i = Len(prefix) + 1 \/ Blank(i - 1))}
TokenEnd(i) ==
    CHOOSE j \in i..Len(content) :
        /\ \A m \in i..j : ~Blank(m)
        /\ j = Len(content) \/ Blank(j + 1)
KthStart(k) ==
    CHOOSE i \in TokenStarts : Cardinality({j \in TokenStarts : j < i}) = k - 1
Token(k) == SubSeq(content, KthStart(k), TokenEnd(KthStart(k)))

LowerCased(tok, low) ==
    /\ Len(low) = Len(tok)
    /\ \A i \in 1..Len(tok) :
           low[i] = (IF tok[i] = "A" THEN "a" ELSE IF tok[i] = "B" THEN "b" ELSE tok[i])

\* C8: for every content that starts with the prefix and has a token after
\* it, parse yields command = the first whitespace-separated token after the
\* prefix, lower-cased, args = the remaining tokens in order with their case
\* kept, and content = the raw input; "!foo bar baz" gives "foo", ["bar","baz"].
ParseYieldsTokens ==
    (parse_pc = "parsed" /\ HasPrefix /\ TokenStarts /= {}) =>
        /\ ~parsed.none
        /\ LowerCased(Token(1), parsed.command)
        /\ Len(parsed.args) = Cardinality(TokenStarts) - 1
        /\ \A k \in 1..Len(parsed.args) : parsed.args[k] = Token(k + 1)
        /\ parsed.content = content
        /\ (content = Example /\ prefix = <<"!">>) =>
               /\ parsed.command = <<"f", "o", "o">>
               /\ parsed.args = << <<"b", "a", "r">>, <<"b", "a", "z">> >>

\* witness of C8: a parsed content with an upper-case letter in the command
\* token and one in an argument
ParseYieldsTokensWitness ==
    /\ parse_pc = "parsed"
    /\ HasPrefix
    /\ Cardinality(TokenStarts) = 2
    /\ "B" \in {Token(1)[i] : i \in 1..Len(Token(1))}
    /\ "B" \in {Token(2)[i] : i \in 1..Len(Token(2))}
    /\ ~parsed.none

\* witness of C8, the example of the claim
ParseExampleWitness ==
    /\ parse_pc = "parsed"
    /\ content = Example
    /\ prefix = <<"!">>
    /\ parsed.command = <<"f", "o", "o">>

\* C9 as stated: parse returns none exactly when content does not start with
\* the configured prefix.
ParseNoneIffNoPrefix ==
    parse_pc = "parsed" => (parsed.none <=> ~HasPrefix)

\* C9 amended: parse returns none exactly when content does not start with
\* the prefix or nothing but whitespace follows the prefix; no ParsedCommand is
\* produced for content that does not start with the prefix.
ParseNoneIffNoPrefixOrNoToken ==
    parse_pc = "parsed" =>
        (parsed.none <=>
            (~HasPrefix \/ \A i \in (Len(prefix) + 1)..Len(content) : Blank(i)))

\* witness of C9: the three cases, a content without the prefix, a prefix
\* followed by whitespace only, and a command
ParseNoneWithoutPrefix == parse_pc = "parsed" /\ ~HasPrefix /\ content /= <<>> /\ parsed.none
ParseNoneForBarePrefix ==
    /\ parse_pc = "parsed"
    /\ HasPrefix
    /\ Len(content) > Len(prefix)
    /\ parsed.none

\* =========================================================== plugin loader
\* A class is a record [kind, module, id]: kind "plugin" (a subclass of
\* PluginInterface), "interface" (PluginInterface itself) or "helper" (any
\* other class); module is __module__ as the sequence of its dotted parts.
PluginInterface ==
    [kind |-> "interface", module |-> <<"artemis", "plugin", "base">>, id |-> "PluginInterface"]
PluginClass(d, id) == [kind |-> "plugin", module |-> <<"plugins", d, d>>, id |-> id]
HelperClass(d) == [kind |-> "helper", module |-> <<"plugins", d, d>>, id |-> "helper"]

\* issubclass(obj, PluginInterface)
IsPluginSubclass(obj) == obj.kind \in {"plugin", "interface"}

\* obj_module == module.__name__ or obj_module.startswith(module.__name__ + ".")
DefinedUnder(obj_module, module_name) ==
    \/ obj_module = module_name
    \/ /\ Len(obj_module) > Len(module_name)
       /\ SubSeq(obj_module, 1, Len(module_name)) = module_name

InList(x, list) == \E i \in 1..Len(list) : list[i] = x

\* variant: no `obj not in plugins` test
RECURSIVE CollectMembers_NoDedup(_, _, _)
CollectMembers_NoDedup(members, module_name, acc) ==
    IF members = <<>> THEN acc
    ELSE LET obj == Head(members)
             keep == /\ IsPluginSubclass(obj)
                     /\ obj /= PluginInterface
                     /\ DefinedUnder(obj.module, module_name)
         IN  CollectMembers_NoDedup(Tail(members), module_name,
                                    IF keep THEN ListAppend(acc, obj) ELSE acc)

\* the loop over inspect.getmembers(module, inspect.isclass)
RECURSIVE CollectMembers(_, _, _)
CollectMembers(members, module_name, acc) ==
    IF members = <<>> THEN acc
    ELSE LET obj == Head(members)
             keep == /\ IsPluginSubclass(obj)
                     /\ obj /= PluginInterface
                     /\ DefinedUnder(obj.module, module_name)
                     /\ ~InList(obj, acc)
         IN  CollectMembers(Tail(members), module_name,
                            IF keep THEN ListAppend(acc, obj) ELSE acc)

\* variant: the try/except is around the whole loop, a failing import ends it
RECURSIVE ScanDirs_AbortOnImportError(_, _)
ScanDirs_AbortOnImportError(entries, acc) ==
    IF entries = <<>> THEN acc
    ELSE LET plugin_dir == Head(entries)
         IN  IF ~plugin_dir.is_dir THEN ScanDirs_AbortOnImportError(Tail(entries), acc)
             ELSE IF plugin_dir.import /= "ok" THEN acc
             ELSE ScanDirs_AbortOnImportError(Tail(entries),
                      CollectMembers(plugin_dir.members,
                                     <<"plugins", plugin_dir.name>>, acc))

\* the loop over self.plugins_dir.iterdir()
RECURSIVE ScanDirs(_, _)
ScanDirs(entries, acc) ==
    IF entries = <<>> THEN acc
    ELSE LET plugin_dir == Head(entries)
         IN  ScanDirs(Tail(entries),
                 IF ~plugin_dir.is_dir THEN acc
                 ELSE IF plugin_dir.import /= "ok" THEN acc
                 ELSE CollectMembers(plugin_dir.members,
                                     <<"plugins", plugin_dir.name>>, acc))

\* PluginLoader.discover_plugins
discover_plugins(dir) ==
    IF ~dir.exists THEN <<>> ELSE ScanDirs(dir.entries, <<>>)

\* what a plugin's register(bot) submits to the registry, in order
PluginListeners(cls) ==
    <<EventListener("message", None, NoInterval, cls.id, None, NoHelp),
      EventListener(None, "ping", NoInterval, cls.id, None, HelpStr)>>

\* what a register(bot) call does: it submits its first `added` descriptors
\* and then returns, or raises an Exception
RegisterOutcomes ==
    {[added |-> 2, raised |-> FALSE]}
    \cup {[added |-> n, raised |-> TRUE] : n \in 0..2}

\* the registry tables after add_listener on the first n descriptors of ls
RECURSIVE RegistryAfter(_, _, _)
RegistryAfter(reg, ls, n) ==
    IF n = 0 THEN reg
    ELSE LET r == RegistryAfter(reg, ls, n - 1)
         IN  [el |-> EventListenersAfter(r.el, ls[n]),
              cl |-> CommandListenersAfter(r.cl, ls[n]),
              ch |-> CommandHelpAfter(r.ch, ls[n]),
              pt |-> PeriodicTasksAfter(r.pt, ls[n])]

\* load_plugins up to the loop: plugins = self.discover_plugins()
LoadDiscover ==
    /\ phase = "load"
    /\ load_pc = "start"
    /\ plugins' = discover_plugins(plugins_dir)
    /\ load_pc' = IF plugins' = <<>> THEN "done" ELSE "registering"
    /\ UNCHANGED <<plugins_dir, loaded_plugins, register_log>>
    /\ UNCHANGED <<phase, event_listeners, command_listeners, command_help,
                   periodic_tasks, registrations, evt, cmd, parseVars, periodicVars, restVars>>

\* the effect of plugin_class.register(bot) with outcome ro on the registry
RegisterEffect(cls, ro) ==
    LET ls == PluginListeners(cls)
        r == RegistryAfter([el |-> event_listeners, cl |-> command_listeners,
                            ch |-> command_help, pt |-> periodic_tasks],
                           ls, ro.added)
    IN  /\ event_listeners' = r.el
        /\ command_listeners' = r.cl
        /\ command_help' = r.ch
        /\ periodic_tasks' = r.pt
        /\ registrations' = registrations \o SubSeq(ls, 1, ro.added)

\* variant: the class is recorded as loaded before register is called
RegisterPlugin_RecordFirst(ro) ==
    /\ load_pc = "registering"
    /\ LET plugin_class == plugins[Len(register_log) + 1]
       IN  /\ RegisterEffect(plugin_class, ro)
           /\ loaded_plugins' = ListAppend(loaded_plugins, plugin_class)
           /\ register_log' = Append(register_log,
                                     [plugin |-> plugin_class, raised |-> ro.raised])
    /\ load_pc' = IF Len(register_log') = Len(plugins) THEN "done" ELSE "registering"
    /\ UNCHANGED <<plugins_dir, plugins>>
    /\ UNCHANGED <<phase, evt, cmd, parseVars, periodicVars, restVars>>

\* one iteration of `for plugin_class in plugins`: register is called; when
\* it returns the class is appended to loaded_plugins, when it raises the
\* error is logged; the loop goes on either way
RegisterPlugin(ro) ==
    /\ load_pc = "registering"
    /\ LET plugin_class == plugins[Len(register_log) + 1]
       IN  /\ RegisterEffect(plugin_class, ro)
           /\ loaded_plugins' = IF ro.raised THEN loaded_plugins
                                ELSE ListAppend(loaded_plugins, plugin_class)
           /\ register_log' = Append(register_log,
                                     [plugin |-> plugin_class, raised |-> ro.raised])
    /\ load_pc' = IF Len(register_log') = Len(plugins) THEN "done" ELSE "registering"
    /\ UNCHANGED <<plugins_dir, plugins>>
    /\ UNCHANGED <<phase, evt, cmd, parseVars, periodicVars, restVars>>

DirNames == <<"a", "b", "c">>
OtherDir(d) == IF d = "a" THEN "b" ELSE "a"

Dir(d, is_dir, import, members) ==
    [name |-> d, is_dir |-> is_dir, import |-> import, members |-> members]

\* what a directory entry named d can be
DirKinds(d) ==
    {Dir(d, FALSE, "ok", <<>>),
     Dir(d, TRUE, "ImportError", <<>>),
     Dir(d, TRUE, "Exception", <<>>),
     Dir(d, TRUE, "ok", <<HelperClass(d)>>),
     Dir(d, TRUE, "ok", <<PluginClass(d, d), PluginInterface>>),
     Dir(d, TRUE, "ok", <<PluginClass(d, d), PluginClass(d, d)>>),
     Dir(d, TRUE, "ok", <<PluginClass(OtherDir(d), OtherDir(d)), PluginClass(d, d)>>),
     Dir(d, TRUE, "ok", <<PluginClass(d, d), PluginClass(d, "second")>>)}

InitLoad ==
    /\ InitRegistry
    /\ InitParser
    /\ plugins_dir \in
           {[exists |-> FALSE, entries |-> <<>>]}
           \cup {[exists |-> TRUE, entries |-> e] :
                    e \in {f \in [1..Len(DirNames) -> UNION {DirKinds(DirNames[i]) : i \in 1..Len(DirNames)}] :
                              \A i \in 1..Len(DirNames) : f[i] \in DirKinds(DirNames[i])}}
    /\ plugins = <<>>
    /\ loaded_plugins = <<>>
    /\ load_pc = "start"
    /\ register_log = <<>>

NextLoad ==
    \/ LoadDiscover
    \/ \E ro \in RegisterOutcomes : RegisterPlugin(ro)

SpecLoad == InitLoad /\ [][NextLoad]_vars

\* the classes whose register() call returned normally, in call order
RegisteredNormally ==
    LET ok(r) == ~r.raised
        sel == SelectSeq(register_log, ok)
    IN  [i \in 1..Len(sel) |-> sel[i].plugin]

\* C10: load_plugins leaves a plugin whose register raises out of
\* loaded_plugins, still invokes register on every other discovered plugin,
\* and ends with loaded_plugins holding exactly the plugins whose register
\* returned normally, in discovery order.
LoadedAreExactlyTheRegistered ==
    /\ \A i \in 1..Len(register_log) : register_log[i].plugin = plugins[i]
    /\ load_pc = "done" =>
           /\ Len(register_log) = Len(plugins)
           /\ loaded_plugins = RegisteredNormally
           /\ \A i \in 1..Len(register_log) :
                  register_log[i].raised => ~InList(plugins[i], loaded_plugins)

\* witness of C10: a finished load in which a register raised and a plugin
\* discovered later was registered and loaded
LoadedAreExactlyTheRegisteredWitness ==
    /\ load_pc = "done"
    /\ \E i, j \in 1..Len(register_log) :
           /\ i < j
           /\ register_log[i].raised
           /\ ~register_log[j].raised
           /\ InList(plugins[j], loaded_plugins)

\* the directory entries of the plugins directory, by position
DirEntry(i) == plugins_dir.entries[i]
DirPositions == 1..Len(plugins_dir.entries)
ImportFails(i) == DirEntry(i).is_dir /\ DirEntry(i).import \in {"ImportError", "Exception"}
ImportSucceeds(i) == DirEntry(i).is_dir /\ DirEntry(i).import = "ok"

\* the plugin classes that directory i itself defines and shows as members
OwnPluginClasses(i) ==
    {DirEntry(i).members[m] : m \in 1..Len(DirEntry(i).members)}
        \cap {c \in {PluginClass(DirEntry(i).name, id) : id \in {DirEntry(i).name, "second"}} : TRUE}

\* C11: discover_plugins skips a plugin directory whose import raises
\* (ImportError or any other exception), and still returns the plugin classes
\* of every other directory.
DiscoverySkipsFailedImports ==
    load_pc /= "start" =>
        /\ \A i \in DirPositions :
               ImportSucceeds(i) => \A c \in OwnPluginClasses(i) : InList(c, plugins)
        /\ \A i \in DirPositions :
               ImportFails(i) =>
                   \A k \in 1..Len(plugins) : plugins[k].module[2] /= DirEntry(i).name

\* witness of C11: three directories, the import of the first raises
\* ImportError, of the second another exception, and the plugin class of the
\* third is returned
DiscoverySkipsFailedImportsWitness ==
    /\ load_pc /= "start"
    /\ Len(plugins_dir.entries) = 3
    /\ DirEntry(1).is_dir /\ DirEntry(1).import = "ImportError"
    /\ DirEntry(2).is_dir /\ DirEntry(2).import = "Exception"
    /\ ImportSucceeds(3)
    /\ OwnPluginClasses(3) /= {}
    /\ \A c \in OwnPluginClasses(3) : InList(c, plugins)

\* how often register() was called on class c
RegisterCalls(c) == Cardinality({k \in 1..Len(register_log) : register_log[k].plugin = c})

\* C12: register is invoked exactly once on each discovered plugin class: a
\* class reachable through several module members or plugin directories is
\* collected once, and PluginInterface itself is never collected or registered.
RegisterOncePerClass ==
    /\ \A j, k \in 1..Len(plugins) : plugins[j] = plugins[k] => j = k
    /\ \A k \in 1..Len(plugins) : plugins[k] /= PluginInterface
    /\ \A k \in 1..Len(register_log) :
           /\ register_log[k].plugin /= PluginInterface
           /\ RegisterCalls(register_log[k].plugin) = 1
    /\ load_pc = "done" =>
           \A i \in DirPositions :
               ImportSucceeds(i) => \A c \in OwnPluginClasses(i) : RegisterCalls(c) = 1

\* witness of C12: a finished load over a module that shows one plugin class
\* under two member names, a module that shows PluginInterface, and a module
\* that shows the plugin class of another directory
RegisterOncePerClassWitness ==
    /\ load_pc = "done"
    /\ Len(register_log) >= 2
    /\ \E i \in DirPositions :
           /\ ImportSucceeds(i)
           /\ Len(DirEntry(i).members) = 2
           /\ DirEntry(i).members[1] = DirEntry(i).members[2]
    /\ \E i \in DirPositions :
           /\ ImportSucceeds(i)
           /\ \E m \in 1..Len(DirEntry(i).members) : DirEntry(i).members[m] = PluginInterface
    /\ \E i \in DirPositions :
           /\ ImportSucceeds(i)
           /\ \E m \in 1..Len(DirEntry(i).members) :
                  /\ DirEntry(i).members[m].kind = "plugin"
                  /\ DirEntry(i).members[m].module[2] /= DirEntry(i).name
                  /\ RegisterCalls(DirEntry(i).members[m]) = 1

\* a finished dispatch_command call that took the help path
HelpCallFinished ==
    /\ cmd.pc \in {"returned", "raised"}
    /\ \E i \in 1..Len(cmd.args) : cmd.args[i] = "-help"

GenericReplyFor(c) == [generic |-> TRUE, text |-> c]
TextReply(t) == [generic |-> FALSE, text |-> t]

\* C19 as stated: a -help dispatch makes exactly one reply, which is the
\* registered help string verbatim, or the result of the registered help
\* producer, or the generic text when no help is registered for the keyword.
HelpRepliesOnceWithRegisteredHelp ==
    HelpCallFinished =>
        /\ Len(cmd.reply) = 1
        /\ IF cmd.name \notin DOMAIN command_help
           THEN cmd.reply[1] = GenericReplyFor(cmd.name)
           ELSE IF command_help[cmd.name].kind = "str"
           THEN cmd.reply[1] = TextReply(command_help[cmd.name].text)
           ELSE cmd.reply[1] = TextReply(cmd.produced)

\* C19 amended: a -help dispatch calls message.reply exactly once, with the
\* registered help string verbatim, or with the result of the registered help
\* producer when it returns a non-empty text, or with the generic text when no
\* help is registered, the producer raises or the producer returns nothing;
\* this holds whether or not the keyword has listeners and whatever the scope.
HelpRepliesOnce ==
    HelpCallFinished =>
        /\ Len(cmd.reply) = 1
        /\ cmd.invoked = <<>>
        /\ IF cmd.name \notin DOMAIN command_help
           THEN cmd.reply[1] = GenericReplyFor(cmd.name)
           ELSE IF command_help[cmd.name].kind = "str"
           THEN cmd.reply[1] = TextReply(command_help[cmd.name].text)
           ELSE IF cmd.producer = "returned" /\ cmd.produced /= ""
           THEN cmd.reply[1] = TextReply(cmd.produced)
           ELSE cmd.reply[1] = GenericReplyFor(cmd.name)

\* witness of C19: a help producer was called in a guild context and its
\* result was the reply
HelpRepliesOnceWitness ==
    /\ HelpCallFinished
    /\ cmd.pc = "returned"
    /\ cmd.guild /= None
    /\ cmd.producer = "returned"
    /\ cmd.reply = <<TextReply("dynamic help")>>

\* witness of C19, the other cases: the verbatim string, and the generic text
\* for a keyword without listeners
HelpRepliesStringWitness ==
    /\ HelpCallFinished
    /\ cmd.reply = <<TextReply("usage")>>
HelpRepliesGenericWitness ==
    /\ HelpCallFinished
    /\ cmd.name \notin DOMAIN command_listeners
    /\ cmd.reply = <<GenericReplyFor(cmd.name)>>

\* C20: when the registered help producer raises, the reply is the generic
\* "No help available" text and the producer's failure is not propagated out
\* of dispatch_command.
HelpProducerFailureFallsBack ==
    cmd.producer = "raised" =>
        /\ cmd.reply = <<GenericReplyFor(cmd.name)>>
        /\ cmd.raised_by /= "producer"
        /\ cmd.pc = "raised" => cmd.raised_by = "reply"

\* witness of C20: the producer raised, the generic reply was sent and the
\* call returned
HelpProducerFailureFallsBackWitness ==
    /\ cmd.producer = "raised"
    /\ cmd.pc = "returned"
    /\ cmd.reply = <<GenericReplyFor(cmd.name)>>

\* ============================ periodic tasks: start, run, stop
MaxPerReg == 2
MaxStarts == 2
MaxStops == 2
MaxTime == 4
MaxTasks == 2

Intervals == {1, 2}

PerDescriptors ==
    {EventListener(None, None, <<n>>, "cbA", None, NoHelp) : n \in Intervals}

\* a plugin's register() submits a periodic descriptor during the load phase
RegisterPeriodicListener(l) ==
    /\ phase = "load"
    /\ Len(registrations) < MaxPerReg
    /\ add_listener(l)
    /\ UNCHANGED <<phase, evt, cmd, parseVars, loadVars, periodicVars, restVars>>

\* asyncio.create_task(self._run_periodic(interval, callback)) at time t: the
\* task exists but has not run its first step.  invocations counts the
\* callback invocations begun, last_begin / last_end are the times the latest
\* one began and ended, last_outcome how the latest ended one ended, busy the
\* time all ended invocations took together;
\* cancel: task.cancel() was called and CancelledError is not yet delivered;
\* cancelled: CancelledError has been delivered
NewTask(entry, t) ==
    [interval |-> entry[1], callback |-> entry[2], pc |-> "created",
     started |-> t, wake |-> t, cancel |-> FALSE, cancelled |-> FALSE,
     invocations |-> 0, last_begin |-> t, last_end |-> t, busy |-> 0,
     last_outcome |-> "none"]

\* variant: one task per distinct (interval, callback) entry
SpawnedTasks_Distinct(pt, t) ==
    LET first(i) == \A j \in 1..(i - 1) : pt[j] /= pt[i]
        keep == {i \in 1..Len(pt) : first(i)}
        nth[k \in 0..Len(pt)] ==
            IF k = 0 THEN <<>>
            ELSE IF k \in keep THEN Append(nth[k - 1], NewTask(pt[k], t))
            ELSE nth[k - 1]
    IN  nth[Len(pt)]

\* the tasks start_periodic_tasks creates, one per entry in list order
SpawnedTasks(pt, t) == [i \in 1..Len(pt) |-> NewTask(pt[i], t)]

\* EventManager.start_periodic_tasks (called by on_ready at every ready event)
start_periodic_tasks ==
    /\ phase = "run"
    /\ starts < MaxStarts
    /\ Len(tasks) + Len(periodic_tasks) <= MaxTasks
    /\ LET new == SpawnedTasks(periodic_tasks, now)
       IN  /\ tasks' = tasks \o new
           /\ _periodic_task_handles' =
                  _periodic_task_handles \o [k \in 1..Len(new) |-> Len(tasks) + k]
    /\ starts' = starts + 1
    /\ UNCHANGED <<phase, event_listeners, command_listeners, command_help,
                   periodic_tasks, registrations, evt, cmd, parseVars, loadVars, restVars,
                   now, stops>>

\* variant: the handle list is not cleared
HandlesAfterStop_Kept(hs) == hs

\* self._periodic_task_handles.clear()
HandlesAfterStop(hs) == <<>>

\* task.cancel(): a no-op on a finished task, otherwise a cancellation request
Cancel(task) == IF task.pc = "done" THEN task ELSE [task EXCEPT !.cancel = TRUE]

\* EventManager.stop_periodic_tasks (called by ArtemisBot.close)
stop_periodic_tasks ==
    /\ phase = "run"
    /\ stops < MaxStops
    /\ LET recorded == {_periodic_task_handles[k] : k \in 1..Len(_periodic_task_handles)}
       IN  tasks' = [i \in 1..Len(tasks) |->
                        IF i \in recorded THEN Cancel(tasks[i]) ELSE tasks[i]]
    /\ _periodic_task_handles' = HandlesAfterStop(_periodic_task_handles)
    /\ stops' = stops + 1
    /\ UNCHANGED <<phase, event_listeners, command_listeners, command_help,
                   periodic_tasks, registrations, evt, cmd, parseVars, loadVars, restVars,
                   now, starts>>

\* variant: the k-th sleep ends k intervals after the task started
WakeTime_FixedCadence(task, t) ==
    task.started + (task.invocations + 1) * task.interval

\* variant: the callback is invoked first and the sleep follows it
WakeTime_CallbackFirst(task, t) ==
    IF task.invocations = 0 THEN t ELSE t + task.interval

\* await asyncio.sleep(interval) entered at time t ends at t + interval
WakeTime(task, t) == t + task.interval

TaskUnchanged ==
    UNCHANGED <<phase, event_listeners, command_listeners, command_help,
                periodic_tasks, registrations, evt, cmd, parseVars, loadVars, restVars,
                _periodic_task_handles, now, starts, stops>>

\* the first step of _run_periodic: enters the loop and suspends in sleep
TaskRun(i) ==
    /\ i \in 1..Len(tasks)
    /\ tasks[i].pc = "created" /\ ~tasks[i].cancel
    /\ tasks' = [tasks EXCEPT ![i].pc = "sleeping", ![i].wake = WakeTime(tasks[i], now)]
    /\ TaskUnchanged

\* variant: a timer that fires every interval whether or not the previous
\* invocation has ended
Wake_Overlapping(i) ==
    /\ i \in 1..Len(tasks)
    /\ tasks[i].pc \in {"sleeping", "in_callback"} /\ ~tasks[i].cancel
    /\ tasks[i].wake <= now
    /\ tasks' = [tasks EXCEPT ![i].pc = "in_callback", ![i].invocations = @ + 1,
                              ![i].last_begin = now]
    /\ TaskUnchanged

\* the sleep is over: the callback is invoked with the bot
Wake(i) ==
    /\ i \in 1..Len(tasks)
    /\ tasks[i].pc = "sleeping" /\ ~tasks[i].cancel
    /\ tasks[i].wake <= now
    /\ tasks' = [tasks EXCEPT ![i].pc = "in_callback", ![i].invocations = @ + 1,
                              ![i].last_begin = now]
    /\ TaskUnchanged

\* variant: an invocation completes although its task has been cancelled
CanComplete_Shielded(task) == TRUE

\* a task with a pending cancellation resumes with CancelledError, not with
\* the result its callback was waiting for
CanComplete(task) == ~task.cancel

\* the invocation in flight ends at time t with outcome o
Ended(task, o, t) ==
    [task EXCEPT !.last_end = t, !.busy = @ + (t - task.last_begin),
                 !.last_outcome = o]

\* variant: no except Exception in the loop, a raising tick ends the task
TaskAfterCallback_Uncaught(task, o, t) ==
    IF o = "raise"
    THEN [Ended(task, o, t) EXCEPT !.pc = "done"]
    ELSE [Ended(task, o, t) EXCEPT !.pc = "sleeping", !.wake = WakeTime(task, t)]

\* the callback returned, or raised and except Exception logged it: the loop
\* goes round and sleeps again
TaskAfterCallback(task, o, t) ==
    [Ended(task, o, t) EXCEPT !.pc = "sleeping", !.wake = WakeTime(task, t)]

\* the periodic callback's invocation ends with outcome o
PeriodicCallbackEnds(i, o) ==
    /\ i \in 1..Len(tasks)
    /\ tasks[i].pc = "in_callback" /\ CanComplete(tasks[i])
    /\ tasks' = [tasks EXCEPT ![i] = TaskAfterCallback(tasks[i], o, now)]
    /\ TaskUnchanged

\* CancelledError reaches the task where it is suspended; an invocation in
\* flight lets it propagate and so ends
Interrupted(task, t) ==
    IF task.pc = "in_callback"
    THEN [Ended(task, "cancelled", t) EXCEPT !.cancel = FALSE, !.cancelled = TRUE]
    ELSE [task EXCEPT !.cancel = FALSE, !.cancelled = TRUE]

\* variant: except CancelledError does not leave the loop
CancelledTask_Continue(task, t) ==
    [Interrupted(task, t) EXCEPT !.pc = "sleeping", !.wake = WakeTime(task, t)]

\* CancelledError is thrown into the task where it is suspended: before its
\* first step, in asyncio.sleep, or inside the awaited callback; except
\* asyncio.CancelledError breaks the loop
CancelledTask(task, t) ==
    [Interrupted(task, t) EXCEPT !.pc = "done"]

DeliverCancel(i) ==
    /\ i \in 1..Len(tasks)
    /\ tasks[i].cancel /\ tasks[i].pc /= "done"
    /\ tasks' = [tasks EXCEPT ![i] = CancelledTask(tasks[i], now)]
    /\ TaskUnchanged

\* a task the event loop has to run before the clock moves on
Ready(task) ==
    \/ task.pc = "created"
    \/ task.cancel /\ task.pc /= "done"
    \/ task.pc = "sleeping" /\ task.wake <= now

\* variant: a callback in flight holds the event loop, no timer fires
Tick_HeldByCallback ==
    /\ phase = "run"
    /\ now < MaxTime
    /\ \A i \in 1..Len(tasks) : ~Ready(tasks[i]) /\ tasks[i].pc /= "in_callback"
    /\ now' = now + 1
    /\ UNCHANGED <<phase, event_listeners, command_listeners, command_help,
                   periodic_tasks, registrations, evt, cmd, parseVars, loadVars, restVars,
                   _periodic_task_handles, tasks, starts, stops>>

\* one second passes while every task is suspended
Tick ==
    /\ phase = "run"
    /\ now < MaxTime
    /\ \A i \in 1..Len(tasks) : ~Ready(tasks[i])
    /\ now' = now + 1
    /\ UNCHANGED <<phase, event_listeners, command_listeners, command_help,
                   periodic_tasks, registrations, evt, cmd, parseVars, loadVars, restVars,
                   _periodic_task_handles, tasks, starts, stops>>

InitPeriodic == InitRegistry /\ InitParser /\ InitLoader

NextPeriodic ==
    \/ \E l \in PerDescriptors : RegisterPeriodicListener(l)
    \/ Connect
    \/ start_periodic_tasks
    \/ stop_periodic_tasks
    \/ \E i \in 1..MaxTasks : TaskRun(i)
    \/ \E i \in 1..MaxTasks : Wake(i)
    \/ \E i \in 1..MaxTasks, o \in Outcomes : PeriodicCallbackEnds(i, o)
    \/ \E i \in 1..MaxTasks : DeliverCancel(i)
    \/ Tick

SpecPeriodic == InitPeriodic /\ [][NextPeriodic]_vars

\* the event loop runs a task whose cancellation is pending
SpecPeriodicFair ==
    SpecPeriodic /\ \A i \in 1..MaxTasks : WF_vars(DeliverCancel(i))

\* no task recorded in the handle list is still running
NoRunningTasks ==
    \A k \in 1..Len(_periodic_task_handles) :
        tasks[_periodic_task_handles[k]].pc = "done"

\* C13: start_periodic_tasks called with no running tasks spawns one repeating
\* task per entry of periodic_tasks, in order, and records one handle for each,
\* so the handle list has the length of periodic_tasks; before the first start
\* the handle list is empty.
StartSpawnsOnePerEntry ==
    /\ [](starts = 0 => _periodic_task_handles = <<>>)
    /\ [][(starts' = starts + 1 /\ NoRunningTasks) =>
             /\ Len(_periodic_task_handles') = Len(periodic_tasks)
             /\ Len(tasks') = Len(tasks) + Len(periodic_tasks)
             /\ \A k \in 1..Len(periodic_tasks) :
                    /\ _periodic_task_handles'[k] = Len(tasks) + k
                    /\ tasks'[Len(tasks) + k] = NewTask(periodic_tasks[k], now)
             /\ \A i \in 1..Len(tasks) : tasks'[i] = tasks[i]]_vars

\* witness of C13: one start with two entries of equal interval and callback
\* has recorded two handles of two distinct new tasks
StartSpawnsOnePerEntryWitness ==
    /\ starts = 1
    /\ Len(periodic_tasks) = 2 /\ periodic_tasks[1] = periodic_tasks[2]
    /\ _periodic_task_handles = <<1, 2>>
    /\ Len(tasks) = 2

\* C14: stop_periodic_tasks requests cancellation of every recorded task and
\* leaves the handle list empty; with an empty handle list (a second stop, or
\* no start before it) it changes nothing.
StopIsIdempotent ==
    [][stops' = stops + 1 =>
          /\ _periodic_task_handles' = <<>>
          /\ \A k \in 1..Len(_periodic_task_handles) :
                 LET t == tasks'[_periodic_task_handles[k]]
                 IN  t.cancel \/ t.pc = "done"
          /\ _periodic_task_handles = <<>> =>
                 /\ tasks' = tasks
                 /\ UNCHANGED <<phase, event_listeners, command_listeners, command_help,
                                periodic_tasks, registrations, evt, cmd, parseVars,
                                loadVars, now, starts>>]_vars

\* witness of C14: a second stop after a start and a stop
StopIsIdempotentWitness ==
    /\ stops = 2
    /\ starts >= 1
    /\ Len(tasks) >= 1
    /\ _periodic_task_handles = <<>>
    /\ \A i \in 1..Len(tasks) : tasks[i].cancel \/ tasks[i].pc = "done"

\* C15: a periodic callback that raised on its latest tick has not ended its
\* task: as long as the task is not cancelled it is in its next sleep of one
\* interval, or already in the next invocation.
RaisingTickKeepsTask ==
    \A i \in 1..Len(tasks) :
        LET t == tasks[i]
        IN  (t.last_outcome = "raise" /\ ~t.cancel /\ ~t.cancelled) =>
                /\ t.pc \in {"sleeping", "in_callback"}
                /\ t.pc = "sleeping" => t.wake = t.last_end + t.interval

\* witness of C15: the callback is invoked again after a tick on which it raised
RaisingTickKeepsTaskWitness ==
    \E i \in 1..Len(tasks) :
        /\ tasks[i].last_outcome = "raise"
        /\ tasks[i].pc = "in_callback"
        /\ tasks[i].invocations >= 2
        /\ ~tasks[i].cancelled

\* C16: every task whose cancellation stop_periodic_tasks has requested
\* eventually terminates, and a task begins no invocation once its
\* cancellation has been delivered.
CancelledTasksTerminate ==
    /\ \A i \in 1..MaxTasks :
           [](i \in 1..Len(tasks) /\ tasks[i].cancel
                 => <>(i \in 1..Len(tasks) /\ tasks[i].pc = "done"))
    /\ [](\A i \in 1..Len(tasks) : tasks[i].cancelled => tasks[i].pc = "done")
    /\ [][\A i \in 1..Len(tasks) :
             tasks[i].cancelled => tasks'[i].invocations = tasks[i].invocations]_vars

\* witness of C16: stop was called while one task was in its callback and
\* another was not, and both have terminated
CancelledTasksTerminateWitness ==
    /\ stops >= 1
    /\ Len(tasks) >= 2
    /\ \A i \in 1..Len(tasks) : tasks[i].pc = "done" /\ tasks[i].cancelled
    /\ \E i \in 1..Len(tasks) : tasks[i].last_outcome = "cancelled"
    /\ \E i \in 1..Len(tasks) : tasks[i].last_outcome /= "cancelled"

\* C17 as stated: an invocation in flight when stop_periodic_tasks is called
\* runs to completion, so no invocation ever ends by cancellation.
InFlightInvocationCompletes ==
    \A i \in 1..Len(tasks) : tasks[i].last_outcome /= "cancelled"

\* C17 amended: an invocation in flight when stop_periodic_tasks is called is
\* cancelled where it is suspended: it does not complete, its task ends and
\* begins no further iteration.
InFlightInvocationCancelled ==
    /\ [][\A i \in 1..Len(tasks) :
             (tasks[i].pc = "in_callback" /\ tasks[i].cancel) =>
                 \/ tasks'[i] = tasks[i]
                 \/ /\ tasks'[i].pc = "done"
                    /\ tasks'[i].last_outcome = "cancelled"
                    /\ tasks'[i].invocations = tasks[i].invocations]_vars
    /\ [][\A i \in 1..Len(tasks) :
             tasks[i].pc = "done" => tasks'[i] = tasks[i]]_vars

\* witness of C17: a task ended by the cancellation of its invocation in flight
InFlightInvocationCancelledWitness ==
    \E i \in 1..Len(tasks) :
        /\ tasks[i].pc = "done"
        /\ tasks[i].invocations >= 1
        /\ tasks[i].last_outcome = "cancelled"

\* time the invocations before the latest one took
BusyBefore(task) ==
    IF task.pc = "in_callback" THEN task.busy
    ELSE task.busy - (task.last_end - task.last_begin)

\* C18 as stated: the k-th invocation of a task of interval n begins k*n
\* seconds after the task started, however long earlier invocations took.
InvocationsOnFixedCadence ==
    \A i \in 1..Len(tasks) :
        tasks[i].invocations >= 1 =>
            tasks[i].last_begin =
                tasks[i].started + tasks[i].invocations * tasks[i].interval

\* C18 amended: the k-th invocation begins k*n seconds after the task
\* started plus the time the earlier invocations took.
InvocationsAfterSleeps ==
    \A i \in 1..Len(tasks) :
        tasks[i].invocations >= 1 =>
            tasks[i].last_begin =
                tasks[i].started + tasks[i].invocations * tasks[i].interval
                + BusyBefore(tasks[i])

\* witness of C18: a second invocation that began late because the first
\* took time
InvocationsAfterSleepsWitness ==
    \E i \in 1..Len(tasks) :
        /\ tasks[i].invocations = 2
        /\ BusyBefore(tasks[i]) > 0
        /\ tasks[i].last_begin > tasks[i].started + 2 * tasks[i].interval

\* ============================ registration: descriptors of every shape
MaxReg == 2

\* every combination of bindings, with and without callback and help, and the
\* falsy values of each field
RegDescriptors ==
    {EventListener(e, c, p, cb, None, h) :
        e \in {None, "ready"}, c \in {None, "ping"},
        p \in {NoInterval, <<0>>, <<2>>}, cb \in {None, "cbA"},
        h \in {NoHelp, HelpStr, HelpFn}}
    \cup {EventListener("", None, NoInterval, "cbA", None, NoHelp),
          EventListener(None, "", NoInterval, "cbA", None, HelpStr),
          EventListener(None, "ping", NoInterval, "cbA", None, [kind |-> "str", text |-> ""])}

\* a plugin's register() submits a descriptor
RegisterListener(l) ==
    /\ phase = "load"
    /\ Len(registrations) < MaxReg
    /\ add_listener(l)
    /\ UNCHANGED <<phase, evt, cmd, parseVars, loadVars, periodicVars, restVars>>

InitReg == InitRegistry /\ InitParser /\ InitLoader

NextReg == \E l \in RegDescriptors : RegisterListener(l)

SpecReg == InitReg /\ [][NextReg]_vars

Last(seq) == seq[Len(seq)]

\* the list a table holds for a key, empty when the key is absent
ListAt(d, k) == IF k \in DOMAIN d THEN d[k] ELSE <<>>

\* table d2 is table d with x appended to the list of key k, nothing else
AppendedAt(d, d2, k, x) ==
    /\ DOMAIN d2 = (DOMAIN d) \cup {k}
    /\ d2[k] = Append(ListAt(d, k), x)
    /\ \A j \in DOMAIN d : j /= k => d2[j] = d[j]

\* C21 as stated: for a descriptor with a callback, add_listener appends one
\* entry per binding whose field is set (not None), for any event name, any
\* keyword and any integer interval, and nothing for a field that is not set.
AddListenerBindsEverySetField ==
    [][registrations' /= registrations =>
          LET l == registrations'[Len(registrations')]
          IN  l.callback /= None =>
                 /\ IF l.event_name /= None
                    THEN AppendedAt(event_listeners, event_listeners',
                                    l.event_name, l.callback)
                    ELSE event_listeners' = event_listeners
                 /\ IF l.command /= None
                    THEN AppendedAt(command_listeners, command_listeners', l.command,
                                    <<l.callback, l.guild_id, l.help_text>>)
                    ELSE command_listeners' = command_listeners
                 /\ IF l.periodic /= NoInterval
                    THEN periodic_tasks' =
                             Append(periodic_tasks, <<l.periodic[1], l.callback>>)
                    ELSE periodic_tasks' = periodic_tasks]_vars

\* C21 amended: for a descriptor with a callback, add_listener appends one
\* entry per binding whose field is truthy (a non-empty event name, a
\* non-empty keyword, a non-zero interval), independently of the other
\* bindings, and nothing for a field that is None, "" or 0.
AddListenerBindsEveryTruthyField ==
    [][registrations' /= registrations =>
          LET l == registrations'[Len(registrations')]
          IN  l.callback /= None =>
                 /\ IF TruthyStr(l.event_name)
                    THEN AppendedAt(event_listeners, event_listeners',
                                    l.event_name, l.callback)
                    ELSE event_listeners' = event_listeners
                 /\ IF TruthyStr(l.command)
                    THEN AppendedAt(command_listeners, command_listeners', l.command,
                                    <<l.callback, l.guild_id, l.help_text>>)
                    ELSE command_listeners' = command_listeners
                 /\ IF TruthyInt(l.periodic)
                    THEN periodic_tasks' =
                             Append(periodic_tasks, <<l.periodic[1], l.callback>>)
                    ELSE periodic_tasks' = periodic_tasks]_vars

\* witness of C21: one descriptor with all three bindings has been registered
\* and is in all three tables, after one with an interval of 0 that left
\* periodic_tasks alone
AddListenerBindsEveryTruthyFieldWitness ==
    /\ Len(registrations) = 2
    /\ registrations[1] = EventListener("ready", None, <<0>>, "cbA", None, NoHelp)
    /\ registrations[2] = EventListener("ready", "ping", <<2>>, "cbA", None, NoHelp)
    /\ event_listeners["ready"] = <<"cbA", "cbA">>
    /\ command_listeners["ping"] = <<<<"cbA", None, NoHelp>>>>
    /\ periodic_tasks = <<<<2, "cbA">>>>

\* the keywords descriptors were registered for
RegisteredKeywords ==
    {registrations[i].command : i \in 1..Len(registrations)} \ {None, ""}

\* the help texts of the descriptors registered for keyword K that carried
\* non-empty help text, in registration order
HelpCarriedFor(K) ==
    LET hit(l) == l.command = K /\ TruthyHelp(l.help_text)
        sel == SelectSeq(registrations, hit)
    IN  [i \in 1..Len(sel) |-> sel[i].help_text]

\* the same, for the descriptors that also have a callback
HelpBoundFor(K) ==
    LET hit(l) == l.command = K /\ TruthyHelp(l.help_text) /\ l.callback /= None
        sel == SelectSeq(registrations, hit)
    IN  [i \in 1..Len(sel) |-> sel[i].help_text]

\* C22 as stated: command_help[K] is the help text of the most recently
\* registered descriptor for K that carried non-empty help text.
CommandHelpIsLastCarried ==
    \A K \in RegisteredKeywords :
        IF HelpCarriedFor(K) = <<>>
        THEN K \notin DOMAIN command_help
        ELSE K \in DOMAIN command_help
             /\ command_help[K] = Last(HelpCarriedFor(K))

\* C22 amended: command_help[K] is the help text of the most recently
\* registered descriptor for K that has a callback and carried non-empty help
\* text; descriptors for K without help text or without callback leave it.
CommandHelpIsLastBound ==
    \A K \in RegisteredKeywords :
        IF HelpBoundFor(K) = <<>>
        THEN K \notin DOMAIN command_help
        ELSE K \in DOMAIN command_help
             /\ command_help[K] = Last(HelpBoundFor(K))

\* witness of C22: the second of two help texts registered for one keyword
\* is the one stored
CommandHelpIsLastBoundWitness ==
    /\ Len(registrations) = 2
    /\ \A i \in 1..2 : registrations[i].command = "ping"
                       /\ registrations[i].callback /= None
    /\ registrations[1].help_text = HelpStr
    /\ registrations[2].help_text = HelpFn
    /\ command_help["ping"] = HelpFn

\* C23 as stated: add_listener of a descriptor without callback leaves the
\* four tables exactly as they were.
CallbacklessDescriptorIsInert ==
    [][(registrations' /= registrations
        /\ registrations'[Len(registrations')].callback = None) =>
          UNCHANGED <<event_listeners, command_listeners, command_help,
                      periodic_tasks>>]_vars

\* C24 as stated: a dispatch_command without -help for a keyword that has no
\* bound listener invokes no callback, sends nothing, logs the keyword as not
\* found and returns normally.
UnknownCommandIsLogged ==
    (cmd.pc /= "idle" /\ ~HasHelpFlag(cmd.args)
     /\ RegisteredForCommand(cmd.name) = <<>>) =>
        /\ cmd.pc = "returned"
        /\ cmd.invoked = <<>>
        /\ cmd.reply = <<>>
        /\ cmd.not_found

\* C29: a repeating task invokes its callback no earlier than one interval
\* after the task started, and every later invocation begins no earlier than
\* one interval after the previous invocation returned or raised.
InvocationAfterFullSleep ==
    \A i \in 1..Len(tasks) :
        tasks[i].pc = "in_callback" =>
            /\ tasks[i].last_begin >= tasks[i].started + tasks[i].interval
            /\ tasks[i].last_begin >= tasks[i].last_end + tasks[i].interval
            /\ tasks[i].invocations = 1 => tasks[i].last_end = tasks[i].started

\* witness of C29: a second invocation, one interval after the first one,
\* which took time, returned
InvocationAfterFullSleepWitness ==
    \E i \in 1..Len(tasks) :
        /\ tasks[i].pc = "in_callback"
        /\ tasks[i].invocations = 2
        /\ tasks[i].last_outcome = "ok"
        /\ tasks[i].busy > 0
        /\ tasks[i].last_begin = tasks[i].last_end + tasks[i].interval

\* ============================ the host: load, connect, ready, messages, close
MaxHostReg == 2
MaxHostTime == 2

\* descriptors that bind one callback to the ready event, to a keyword and
\* to an interval at once, or to the ready event only
HostDescriptors ==
    {EventListener("ready", "ping", <<1>>, "cbA", None, NoHelp),
     EventListener("ready", None, NoInterval, "cbB", None, NoHelp)}

\* variant: plugins are loaded lazily, registration has no phase
RegisterHostListener_Late(l) ==
    /\ Len(registrations) < MaxHostReg
    /\ add_listener(l)
    /\ UNCHANGED <<phase, evt, cmd, parseVars, loadVars, periodicVars, restVars>>

\* ArtemisBot.run: load_plugins() runs every register() before super().run()
RegisterHostListener(l) ==
    /\ phase = "load"
    /\ Len(registrations) < MaxHostReg
    /\ add_listener(l)
    /\ UNCHANGED <<phase, evt, cmd, parseVars, loadVars, periodicVars, restVars>>

\* ArtemisBot.on_ready, from start_periodic_tasks() on: the tasks are created
\* and dispatch_event("ready") runs up to its first awaited callback.  The
\* gateway delivers a ready event after every (re)connection.
on_ready ==
    /\ phase = "run"
    /\ evt.pc /= "in_callback"
    /\ starts < MaxStarts
    /\ Len(tasks) + Len(periodic_tasks) <= MaxTasks
    /\ LET new == SpawnedTasks(periodic_tasks, now)
       IN  /\ tasks' = tasks \o new
           /\ _periodic_task_handles' =
                  _periodic_task_handles \o [k \in 1..Len(new) |-> Len(tasks) + k]
    /\ starts' = starts + 1
    /\ evt' = EventLoop("ready", 0, <<>>, <<>>)
    /\ UNCHANGED <<phase, event_listeners, command_listeners, command_help,
                   periodic_tasks, registrations, cmd, parseVars, loadVars, restVars,
                   now, stops>>

InitHost == InitRegistry /\ InitParser /\ InitLoader

NextHost ==
    \/ \E l \in HostDescriptors : RegisterHostListener(l)
    \/ Connect
    \/ on_ready
    \/ dispatch_command("ping", <<>>, None)
    \/ dispatch_event("message")
    \/ \E o \in Outcomes : EventCallbackEnds(o)
    \/ \E o \in Outcomes : CommandCallbackEnds(o)
    \/ stop_periodic_tasks
    \/ \E i \in 1..MaxTasks : TaskRun(i)
    \/ \E i \in 1..MaxTasks : Wake(i)
    \/ \E i \in 1..MaxTasks, o \in Outcomes : PeriodicCallbackEnds(i, o)
    \/ \E i \in 1..MaxTasks : DeliverCancel(i)
    \/ (now < MaxHostTime /\ Tick)

SpecHost == InitHost /\ [][NextHost]_vars

\* C25: within one dispatch_event or dispatch_command call a callback begins
\* only when every callback begun before it in that call has returned or
\* raised, whatever else runs on the loop meanwhile.
CallbacksOneAtATime ==
    /\ Len(evt.invoked) = Len(evt.outcomes) + (IF evt.pc = "in_callback" THEN 1 ELSE 0)
    /\ Len(cmd.invoked) = Len(cmd.outcomes) + (IF cmd.pc = "in_callback" THEN 1 ELSE 0)

\* witness of C25: the second callback of a ready dispatch runs, after the
\* first has ended, while a command callback and a periodic callback are
\* suspended
CallbacksOneAtATimeWitness ==
    /\ evt.pc = "in_callback" /\ Len(evt.invoked) = 2 /\ Len(evt.outcomes) = 1
    /\ cmd.pc = "in_callback"
    /\ \E i \in 1..Len(tasks) : tasks[i].pc = "in_callback"

\* C26: while the callback of one periodic task is suspended, every other
\* periodic task that is due fires, an invocation of another task can end,
\* callbacks of dispatches in progress can end, a new dispatch can start and
\* the clock moves on.
OthersRunWhileCallbackSuspended ==
    \A i \in 1..Len(tasks) :
        tasks[i].pc = "in_callback" =>
            /\ \A j \in (1..Len(tasks)) \ {i} :
                   /\ (tasks[j].pc = "sleeping" /\ ~tasks[j].cancel
                       /\ tasks[j].wake <= now) => ENABLED Wake(j)
                   /\ (tasks[j].pc = "in_callback" /\ ~tasks[j].cancel)
                          => ENABLED PeriodicCallbackEnds(j, "ok")
            /\ evt.pc = "in_callback" => ENABLED EventCallbackEnds("ok")
            /\ cmd.pc = "in_callback" => ENABLED CommandCallbackEnds("ok")
            /\ evt.pc /= "in_callback" => ENABLED dispatch_event("message")
            /\ cmd.pc /= "in_callback" => ENABLED dispatch_command("ping", <<>>, None)
            /\ (now < MaxTime /\ \A j \in 1..Len(tasks) : ~Ready(tasks[j]))
                   => ENABLED Tick

\* witness of C26: one periodic callback is still suspended in its first
\* invocation while another task is in its second and a command dispatch and
\* an event dispatch begun meanwhile have run their callbacks and returned
OthersRunWhileCallbackSuspendedWitness ==
    /\ \E i, j \in 1..Len(tasks) :
           /\ tasks[i].pc = "in_callback" /\ tasks[i].invocations = 1
           /\ tasks[j].invocations = 2 /\ tasks[j].last_begin > tasks[i].last_begin
    /\ cmd.pc = "returned" /\ Len(cmd.outcomes) >= 1
    /\ evt.pc = "returned" /\ evt.name = "message"

\* C27: the four tables change only in add_listener and the handle list only
\* in start_periodic_tasks and stop_periodic_tasks; no step of a dispatch
\* changes any of them.
TablesChangeOnlyByRegistration ==
    /\ [][<<event_listeners, command_listeners, command_help, periodic_tasks>>'
              /= <<event_listeners, command_listeners, command_help, periodic_tasks>>
          => registrations' /= registrations]_vars
    /\ [][_periodic_task_handles' /= _periodic_task_handles
          => (starts' /= starts \/ stops' /= stops)]_vars
    /\ [][(registrations' = registrations /\ starts' = starts /\ stops' = stops)
          => UNCHANGED <<event_listeners, command_listeners, command_help,
                         periodic_tasks, _periodic_task_handles>>]_vars

\* witness of C27: an event dispatch and a command dispatch have run their
\* callbacks while tasks were recorded, and the tables are as registered
TablesChangeOnlyByRegistrationWitness ==
    /\ evt.pc = "returned" /\ Len(evt.outcomes) = 2
    /\ cmd.pc = "returned" /\ Len(cmd.outcomes) = 1
    /\ _periodic_task_handles /= <<>>
    /\ event_listeners["ready"] = RegisteredForEvent("ready")
    /\ Len(command_listeners["ping"]) = Len(RegisteredForCommand("ping"))

\* C28: during the load phase nothing is dispatched and no task exists;
\* registration happens only in the load phase; tasks are started only by
\* the handler of the ready event.
LoadPhaseComesFirst ==
    /\ [](phase = "load" =>
             /\ evt = NoCall /\ cmd = NoCmdCall
             /\ tasks = <<>> /\ _periodic_task_handles = <<>>
             /\ starts = 0 /\ now = 0)
    /\ [][registrations' /= registrations => (phase = "load" /\ phase' = "load")]_vars
    /\ [][starts' /= starts =>
             (phase = "run" /\ evt' = EventLoop("ready", 0, <<>>, <<>>))]_vars

\* witness of C28: after a load phase with two registrations the ready event
\* has started a task that has ticked, and a command has been dispatched
LoadPhaseComesFirstWitness ==
    /\ phase = "run"
    /\ Len(registrations) = 2
    /\ starts = 1
    /\ \E i \in 1..Len(tasks) : tasks[i].invocations >= 1
    /\ cmd.pc = "returned" /\ Len(cmd.outcomes) >= 1

\* the tasks that are running and have not been asked to stop
LiveTasks == {i \in 1..Len(tasks) : tasks[i].pc /= "done" /\ ~tasks[i].cancel}

\* C30 as stated: there is at most one live repeating task per entry of
\* periodic_tasks, so never more live tasks than entries.
AtMostOneLiveTaskPerEntry ==
    Cardinality(LiveTasks) <= Len(periodic_tasks)

\* C36: within one repeating task invocations never overlap: an invocation
\* begins only while the task is in its sleep, that is after the previous
\* invocation has returned or raised, and never while one is in flight.
InvocationsNeverOverlap ==
    [][\A i \in 1..Len(tasks) :
           tasks'[i].invocations > tasks[i].invocations =>
               /\ tasks[i].pc = "sleeping"
               /\ tasks'[i].pc = "in_callback"
               /\ tasks'[i].invocations = tasks[i].invocations + 1
               /\ tasks[i].invocations >= 1 => tasks[i].last_end >= tasks[i].last_begin]_vars

\* witness of C36: a third invocation is in flight, the second one took time
\* and raised
InvocationsNeverOverlapWitness ==
    \E i \in 1..Len(tasks) :
        /\ tasks[i].pc = "in_callback"
        /\ tasks[i].invocations = 3
        /\ tasks[i].last_outcome = "raise"
        /\ tasks[i].busy > 0

\* the callbacks present in the three registry tables
RegistryCallbacks ==
    UNION {{event_listeners[e][i] : i \in 1..Len(event_listeners[e])} :
              e \in DOMAIN event_listeners}
    \cup UNION {{command_listeners[c][i][1] : i \in 1..Len(command_listeners[c])} :
                   c \in DOMAIN command_listeners}
    \cup {periodic_tasks[i][2] : i \in 1..Len(periodic_tasks)}

\* the callbacks of the plugin classes in loaded_plugins
LoadedCallbacks == {loaded_plugins[k].id : k \in 1..Len(loaded_plugins)}

\* C32 as stated: after load_plugins every callback in event_listeners,
\* command_listeners or periodic_tasks belongs to a plugin in loaded_plugins;
\* a plugin whose register raised part-way leaves no listener behind.
NoListenerOfFailedPlugin ==
    load_pc = "done" => RegistryCallbacks \subseteq LoadedCallbacks

\* ===================================== EventListener: the builder chain
MaxChain == 3
MaxBuilt == 2

BuilderKeywords == {"rem", "remind", "remindme"}

\* EventListener.new()
new ==
    /\ phase = "load"
    /\ ~builder.open
    /\ Len(registrations) < MaxBuilt
    /\ builder' = [open |-> TRUE, listener |-> NewListener, chain |-> <<>>]
    /\ UNCHANGED <<phase, event_listeners, command_listeners, command_help,
                   periodic_tasks, registrations, evt, cmd, parseVars, loadVars,
                   periodicVars, shipVars, storeVars, built, msg, shutdown>>

\* variant: a keyword already set is kept
CommandAfter_KeepFirst(l, command) ==
    IF l.command = None THEN [l EXCEPT !.command = command] ELSE l

\* EventListener.add_command: self.command = command
CommandAfter(l, command) == [l EXCEPT !.command = command]

\* .add_command(command) in a chain
add_command(command) ==
    /\ builder.open
    /\ Len(builder.chain) < MaxChain
    /\ builder' = [builder EXCEPT !.listener = CommandAfter(@, command),
                                  !.chain = Append(@, command)]
    /\ UNCHANGED <<phase, event_listeners, command_listeners, command_help,
                   periodic_tasks, registrations, evt, cmd, parseVars, loadVars,
                   periodicVars, shipVars, storeVars, built, msg, shutdown>>

\* .set_callback(callback) in a chain: self.callback = callback
set_callback(callback) ==
    /\ builder.open
    /\ builder.listener.callback /= callback
    /\ builder' = [builder EXCEPT !.listener.callback = callback]
    /\ UNCHANGED <<phase, event_listeners, command_listeners, command_help,
                   periodic_tasks, registrations, evt, cmd, parseVars, loadVars,
                   periodicVars, shipVars, storeVars, built, msg, shutdown>>

\* bot.eventManager.add_listener(<chain>): the built descriptor is registered
RegisterBuilt ==
    /\ phase = "load"
    /\ builder.open
    /\ add_listener(builder.listener)
    /\ built' = Append(built, builder.chain)
    /\ builder' = NoBuilder
    /\ UNCHANGED <<phase, evt, cmd, parseVars, loadVars, periodicVars,
                   shipVars, storeVars, msg, shutdown>>

InitBuild == InitRegistry /\ InitParser /\ InitLoader

NextBuild ==
    \/ new
    \/ \E k \in BuilderKeywords : add_command(k)
    \/ \E cb \in Callbacks : set_callback(cb)
    \/ RegisterBuilt
    \/ (~builder.open /\ Connect)
    \/ \E k \in BuilderKeywords : dispatch_command(k, <<>>, None)
    \/ \E o \in Outcomes : CommandCallbackEnds(o)

SpecBuild == InitBuild /\ [][NextBuild]_vars

\* the callbacks in command_listeners[k], in order
BoundTo(k) ==
    IF k \in DOMAIN command_listeners
    THEN [i \in 1..Len(command_listeners[k]) |-> command_listeners[k][i][1]]
    ELSE <<>>

\* the callbacks of the registered chains whose last add_command gave k
ChainsEndingIn(k) ==
    LET pairs == [i \in 1..Len(built) |->
                     [chain |-> built[i], callback |-> registrations[i].callback]]
        hit(x) == Len(x.chain) > 0 /\ Last(x.chain) = k /\ x.callback /= None
        sel == SelectSeq(pairs, hit)
    IN  [i \in 1..Len(sel) |-> sel[i].callback]

close ==
    /\ phase = "run"
    /\ shutdown.pc = "open"
    /\ shutdown' = [shutdown EXCEPT !.pc = "presence"]
    /\ UNCHANGED <<phase, event_listeners, command_listeners, command_help,
                   periodic_tasks, registrations, evt, cmd, parseVars, loadVars,
                   periodicVars, shipVars, storeVars, buildVars, msg>>

\* variant: stop_periodic_tasks() is the last statement of the try block
ReachesStop_InsideTry(o) == o = "ok"

\* change_presence returned, or raised and except Exception logged a
\* warning: the statement after the try block is reached either way
ReachesStop(o) == o \in {"ok", "raise"}

\* change_presence ends with outcome o; close goes on, without suspending,
\* to self.eventManager.stop_periodic_tasks() and awaits super().close()
ClosePresenceEnds(o) ==
    /\ shutdown.pc = "presence"
    /\ shutdown' = [shutdown EXCEPT !.pc = "closing", !.presence = o]
    /\ IF ReachesStop(o)
       THEN /\ LET recorded == {_periodic_task_handles[k] :
                                   k \in 1..Len(_periodic_task_handles)}
               IN  tasks' = [i \in 1..Len(tasks) |->
                                IF i \in recorded THEN Cancel(tasks[i]) ELSE tasks[i]]
            /\ _periodic_task_handles' = HandlesAfterStop(_periodic_task_handles)
            /\ stops' = stops + 1
       ELSE UNCHANGED <<tasks, _periodic_task_handles, stops>>
    /\ UNCHANGED <<phase, event_listeners, command_listeners, command_help,
                   periodic_tasks, registrations, evt, cmd, parseVars, loadVars,
                   now, starts, shipVars, storeVars, buildVars, msg>>

\* super().close(): the platform connection is closed
CloseConnection ==
    /\ shutdown.pc = "closing"
    /\ shutdown' = [shutdown EXCEPT !.pc = "returned", !.connection = "closed"]
    /\ UNCHANGED <<phase, event_listeners, command_listeners, command_help,
                   periodic_tasks, registrations, evt, cmd, parseVars, loadVars,
                   periodicVars, shipVars, storeVars, buildVars, msg>>

InitClose == InitRegistry /\ InitParser /\ InitLoader

\* ready events arrive while the bot is connected and not shutting down
NextClose ==
    \/ \E l \in PerDescriptors : RegisterPeriodicListener(l)
    \/ Connect
    \/ (shutdown.pc = "open" /\ start_periodic_tasks)
    \/ close
    \/ \E o \in Outcomes : ClosePresenceEnds(o)
    \/ CloseConnection
    \/ \E i \in 1..MaxTasks : TaskRun(i)
    \/ \E i \in 1..MaxTasks : Wake(i)
    \/ \E i \in 1..MaxTasks, o \in Outcomes : PeriodicCallbackEnds(i, o)
    \/ \E i \in 1..MaxTasks : DeliverCancel(i)
    \/ Tick

SpecClose == InitClose /\ [][NextClose]_vars

\* C39: close cancels all periodic tasks before the platform connection is
\* closed, also when setting the offline presence fails: the connection is
\* closed only after stop_periodic_tasks has run, and once it is closed no
\* started task is left that is neither finished nor asked to stop.
CloseCancelsBeforeDisconnect ==
    /\ [](shutdown.connection = "closed" =>
             /\ stops >= 1
             /\ _periodic_task_handles = <<>>
             /\ LiveTasks = {})
    /\ [][stops' /= stops =>
             (shutdown.connection = "open" /\ shutdown'.connection = "open")]_vars

\* witness of C39: the connection is closed after change_presence raised, and
\* a task that had ticked was cancelled
CloseCancelsBeforeDisconnectWitness ==
    /\ shutdown.connection = "closed"
    /\ shutdown.presence = "raise"
    /\ \E i \in 1..Len(tasks) :
           /\ tasks[i].invocations >= 1
           /\ tasks[i].cancel \/ tasks[i].cancelled

\* ================================= the plugins shipped under src/plugins
\* the attributes of EventManager that a plugin can call to register
EventManagerAttributes == {"add_listener"}

Cmd(k, cb, h) == EventListener(None, k, NoInterval, cb, None, h)
GuildCmd(k, cb) == EventListener(None, k, NoInterval, cb, "G1", NoHelp)
Evt(e, cb) == EventListener(e, None, NoInterval, cb, None, NoHelp)
Per(n, cb) == EventListener(None, None, <<n>>, cb, None, NoHelp)

\* one statement of a register body: bot.eventManager.<api>(listener)
Stmt(api, l) == [api |-> api, listener |-> l]

\* the plugin directories and the class each one defines
ShippedDirs ==
    <<<<"agenda", "Agenda">>,
     <<"archive", "Archive">>,
     <<"audit_log", "AuditLog">>,
     <<"event", "Event">>,
     <<"gamesbot", "GamesBot">>,
     <<"ironreach", "Ironreach">>,
     <<"localization", "Localization">>,
     <<"management", "Management">>,
     <<"match_voting", "MatchVoting">>,
     <<"observer", "Observer">>,
     <<"permission_frontend", "PermissionFrontend">>,
     <<"remind", "Remind">>,
     <<"role", "Role">>,
     <<"server_activity", "ServerActivity">>,
     <<"state", "State">>,
     <<"user", "User">>>>

\* the statements of each class's register(bot) after the testing check, the
\* descriptor being what the builder chain yields
ShippedRegister(id) ==
    CASE id = "Agenda" ->
           <<Stmt("add_listener", Cmd("agenda", "Agenda.agenda_tally_handler", HelpStr)),
             Stmt("add_listener", Evt("agendaPluginConf", "Agenda.handle_config_event"))>>
      [] id = "Archive" ->
           <<Stmt("add_listener", Cmd("archive", "Archive.archive", HelpStr))>>
      [] id = "AuditLog" ->
           <<Stmt("add_listener", Evt("ready", "AuditLog.load_from_storage")),
             Stmt("add_listener", Cmd("auditlog", "AuditLog.output_audit_logs", HelpStr))>>
      [] id = "Event" ->
           <<Stmt("addEventListener", Cmd("event", "Event.event_handler", NoHelp)),
             Stmt("addEventListener", Cmd("calendar", "Event.calendar", NoHelp)),
             Stmt("addEventListener", Cmd("setCalendar", "Event.set_calendar", NoHelp)),
             Stmt("addEventListener", Per(60, "Event.calendar_update"))>>
      [] id = "GamesBot" ->
           <<Stmt("add_listener", Cmd("gamesbot", "GamesBot.game_handler", HelpFn)),
             Stmt("add_listener", Cmd("gamebot", "GamesBot.game_handler", HelpFn)),
             Stmt("add_listener", Cmd("gb", "GamesBot.game_handler", HelpFn))>>
      [] id = "Ironreach" ->
           <<Stmt("addEventListener", GuildCmd("jury", "Ironreach.jury")),
             Stmt("addEventListener", GuildCmd("talkingstick", "Ironreach.talkingstick")),
             Stmt("addEventListener", GuildCmd("vc", "Ironreach.voice_chat")),
             Stmt("addEventListener", Per(3600, "Ironreach.voice_chat_change")),
             Stmt("addEventListener", Evt("agendaPluginConf", "Ironreach.handle_agenda_config"))>>
      [] id = "Localization" ->
           <<Stmt("add_listener", Cmd("time", "Localization.time_helper", HelpStr)),
             Stmt("add_listener", Cmd("timezone", "Localization.timezone", HelpStr))>>
      [] id = "Management" ->
           <<Stmt("add_listener", Cmd("ping", "Management.ping", HelpStr)),
             Stmt("add_listener", Cmd("artemis", "Management.info", HelpStr)),
             Stmt("add_listener", Cmd("invite", "Management.invite", HelpStr)),
             Stmt("add_listener", Cmd("help", "Management.help", HelpStr)),
             Stmt("add_listener", Cmd("talkingstick", "Management.talkingstick", HelpStr)),
             Stmt("add_listener", Cmd("vc", "Management.voice_chat", HelpStr)),
             Stmt("add_listener", Per(3600, "Management.voice_chat_change")),
             Stmt("add_listener", Evt("ready", "Management.startup_time"))>>
      [] id = "MatchVoting" ->
           <<Stmt("add_listener", Cmd("match", "MatchVoting.match_handler", HelpFn)),
             Stmt("add_listener", Cmd("tally", "MatchVoting.tally_handler", HelpStr))>>
      [] id = "Observer" ->
           <<Stmt("add_listener", Cmd("observer", "Observer.config", HelpStr))>>
      [] id = "PermissionFrontend" ->
           <<Stmt("add_listener", Cmd("permission", "PermissionFrontend.hpm", HelpFn)),
             Stmt("add_listener", Cmd("perm", "PermissionFrontend.hpm", HelpFn)),
             Stmt("add_listener", Cmd("hpm", "PermissionFrontend.hpm", HelpFn))>>
      [] id = "Remind" ->
           <<Stmt("addEventListener", Cmd("reminder", "Remind.remind_me", NoHelp)),
             Stmt("addEventListener", Per(10, "Remind.reminder_poll"))>>
      [] id = "Role" ->
           <<Stmt("add_listener", Cmd("role", "Role.role_entry", HelpStr)),
             Stmt("add_listener", Cmd("roles", "Role.role_entry", HelpStr)),
             Stmt("add_listener", Cmd("bindrole", "Role.role_bind", HelpStr))>>
      [] id = "ServerActivity" ->
           <<Stmt("addEventListener", Evt("message", "ServerActivity.message_rx")),
             Stmt("addEventListener", Evt("guildCreate", "ServerActivity.guild_create")),
             Stmt("addEventListener", Per(6, "ServerActivity.update_rrd")),
             Stmt("addEventListener", Cmd("messagestats", "ServerActivity.stats_handler", NoHelp))>>
      [] id = "State" ->
           <<Stmt("add_listener", Cmd("state", "State.process", HelpStr))>>
      [] id = "User" ->
           <<Stmt("add_listener", Cmd("user", "User.process", HelpStr)),
             Stmt("add_listener", Cmd("roster", "User.roster", HelpStr)),
             Stmt("add_listener", Cmd("av", "User.av", HelpStr))>>
      [] OTHER -> <<>>

\* src/plugins as iterdir() lists it: one package per directory, showing its
\* plugin class and the PluginInterface it imports
ShippedEntries ==
    [i \in 1..Len(ShippedDirs) |->
        Dir(ShippedDirs[i][1], TRUE, "ok",
            <<PluginInterface, PluginClass(ShippedDirs[i][1], ShippedDirs[i][2])>>)]

Reversed(seq) == [i \in 1..Len(seq) |-> seq[Len(seq) + 1 - i]]

\* one iteration of the loop over iterdir(): a directory whose package
\* imports adds its plugin classes to the list
ScanDirectory ==
    /\ load_pc = "start"
    /\ plugins_dir.exists
    /\ scan_idx < Len(plugins_dir.entries)
    /\ LET plugin_dir == plugins_dir.entries[scan_idx + 1]
       IN  plugins' = IF ~plugin_dir.is_dir THEN plugins
                      ELSE IF plugin_dir.import /= "ok" THEN plugins
                      ELSE CollectMembers(plugin_dir.members,
                                          <<"plugins", plugin_dir.name>>, plugins)
    /\ scan_idx' = scan_idx + 1
    /\ UNCHANGED <<plugins_dir, loaded_plugins, load_pc, register_log>>
    /\ UNCHANGED <<phase, event_listeners, command_listeners, command_help,
                   periodic_tasks, registrations, evt, cmd, parseVars,
                   periodicVars, testing_mode, call_idx, storeVars, buildVars,
                   msg, shutdown>>

\* discover_plugins returns and load_plugins enters its loop
DiscoverReturns ==
    /\ load_pc = "start"
    /\ scan_idx = Len(plugins_dir.entries)
    /\ load_pc' = IF plugins = <<>> THEN "done" ELSE "registering"
    /\ UNCHANGED <<plugins_dir, plugins, loaded_plugins, register_log>>
    /\ UNCHANGED <<phase, event_listeners, command_listeners, command_help,
                   periodic_tasks, registrations, evt, cmd, parseVars,
                   periodicVars, restVars>>

\* the class register is being called on
CurrentPlugin == plugins[Len(register_log) + 1]

\* load_plugins moves on to the next class
NextPlugin(raised) ==
    /\ register_log' = Append(register_log, [plugin |-> CurrentPlugin, raised |-> raised])
    /\ loaded_plugins' = IF raised THEN loaded_plugins
                         ELSE ListAppend(loaded_plugins, CurrentPlugin)
    /\ load_pc' = IF Len(register_log') = Len(plugins) THEN "done" ELSE "registering"
    /\ UNCHANGED <<plugins_dir, plugins>>

\* `if X.is_testing_client(bot): ... return`
RegisterOnTesting ==
    /\ load_pc = "registering"
    /\ testing_mode
    /\ NextPlugin(FALSE)
    /\ UNCHANGED <<phase, event_listeners, command_listeners, command_help,
                   periodic_tasks, registrations, evt, cmd, parseVars,
                   periodicVars, restVars>>

\* the next statement of register calls an attribute EventManager has
RegisterStatement ==
    /\ load_pc = "registering"
    /\ ~testing_mode
    /\ call_idx < Len(ShippedRegister(CurrentPlugin.id))
    /\ LET st == ShippedRegister(CurrentPlugin.id)[call_idx + 1]
       IN  /\ st.api \in EventManagerAttributes
           /\ add_listener(st.listener)
    /\ call_idx' = call_idx + 1
    /\ UNCHANGED <<phase, evt, cmd, parseVars, loadVars, periodicVars,
                   testing_mode, scan_idx, storeVars, buildVars, msg, shutdown>>

\* the next statement of register calls an attribute EventManager does not
\* have: AttributeError leaves register, load_plugins logs it
RegisterAttributeError ==
    /\ load_pc = "registering"
    /\ ~testing_mode
    /\ call_idx < Len(ShippedRegister(CurrentPlugin.id))
    /\ ShippedRegister(CurrentPlugin.id)[call_idx + 1].api \notin EventManagerAttributes
    /\ NextPlugin(TRUE)
    /\ call_idx' = 0
    /\ UNCHANGED <<phase, event_listeners, command_listeners, command_help,
                   periodic_tasks, registrations, evt, cmd, parseVars,
                   periodicVars, testing_mode, scan_idx, storeVars, buildVars,
                   msg, shutdown>>

\* register has executed its last statement and returns
RegisterReturns ==
    /\ load_pc = "registering"
    /\ ~testing_mode
    /\ call_idx = Len(ShippedRegister(CurrentPlugin.id))
    /\ NextPlugin(FALSE)
    /\ call_idx' = 0
    /\ UNCHANGED <<phase, event_listeners, command_listeners, command_help,
                   periodic_tasks, registrations, evt, cmd, parseVars,
                   periodicVars, testing_mode, scan_idx, storeVars, buildVars,
                   msg, shutdown>>

\* the order of iterdir() is the file system's: two orders are taken
InitShipped ==
    /\ InitTables
    /\ InitParser
    /\ plugins_dir \in {[exists |-> TRUE, entries |-> ShippedEntries],
                        [exists |-> TRUE, entries |-> Reversed(ShippedEntries)]}
    /\ plugins = <<>>
    /\ loaded_plugins = <<>>
    /\ load_pc = "start"
    /\ register_log = <<>>
    /\ testing_mode \in BOOLEAN
    /\ call_idx = 0
    /\ scan_idx = 0
    /\ file = MissingFile
    /\ ops = [p \in Procs |-> IdleOp]
    /\ msg = NoMsg
    /\ builder = NoBuilder
    /\ built = <<>>
    /\ shutdown = NotClosing

NextShipped ==
    \/ ScanDirectory
    \/ DiscoverReturns
    \/ RegisterOnTesting
    \/ RegisterStatement
    \/ RegisterAttributeError
    \/ RegisterReturns

SpecShipped == InitShipped /\ [][NextShipped]_vars

\* C35 as stated: with TESTING_MODE off every shipped plugin class completes
\* register(bot) without raising, so after load_plugins loaded_plugins holds
\* every discovered plugin and every listener of every plugin is registered.
ShippedPluginsAllRegister ==
    (load_pc = "done" /\ ~testing_mode) =>
        /\ \A k \in 1..Len(register_log) : ~register_log[k].raised
        /\ \A k \in 1..Len(plugins) :
               /\ InList(plugins[k], loaded_plugins)
               /\ \A j \in 1..Len(ShippedRegister(plugins[k].id)) :
                      InList(ShippedRegister(plugins[k].id)[j].listener, registrations)

\* ============================================== ArtemisBot.on_message
MaxMsgReg == 2

\* a parser string as the str the registry is keyed by
RECURSIVE Join(_)
Join(str) == IF str = <<>> THEN "" ELSE Head(str) \o Join(Tail(str))

\* the keywords plugins register, one of them with a capital letter
MsgKeywords == {<<"a", "b">>, <<"a", "B">>}

MsgDescriptors ==
    {EventListener(None, Join(k), NoInterval, cb, None, h) :
        k \in MsgKeywords, cb \in Callbacks, h \in {NoHelp, HelpFn}}
    \cup {EventListener("message", None, NoInterval, cb, None, NoHelp) : cb \in Callbacks}

HelpFlag == <<"-", "h", "e", "l", "p">>

\* message contents: the prefix followed by a keyword, the same with the
\* help flag, the prefix alone, and plain text
MsgContents ==
    {<<"!">> \o k : k \in MsgKeywords}
    \cup {<<"!">> \o k \o <<" ">> \o HelpFlag : k \in MsgKeywords}
    \cup {<<"!">>, <<"a", "b">>}

RegisterMsgListener(l) ==
    /\ phase = "load"
    /\ Len(registrations) < MaxMsgReg
    /\ add_listener(l)
    /\ UNCHANGED <<phase, evt, cmd, parseVars, loadVars, periodicVars, restVars>>

\* the frame of dispatch_command(command, parsed_args, event_data) up to its
\* first suspension in a callback, or to its end
CommandCall(command, parsed_args, guild, po, ro) ==
    LET c == [NoCmdCall EXCEPT !.name = command, !.args = parsed_args,
                               !.guild = guild]
    IN  IF HasHelpFlag(parsed_args) THEN _handle_help(c, po, ro)
        ELSE CommandLoop(c, 0)

\* on_message after `await dispatch_event("message", ...)` was reached: the
\* event frame e, and the handler returning when the dispatch has returned
MessageDispatched(m, e) ==
    [m EXCEPT !.events = @ + 1,
              !.pc = IF e.pc = "returned" THEN "returned" ELSE "in_event"]

\* on_message from `await dispatch_command(...)` on, the command frame being
\* c: suspended in a callback, or returned and then the "message" event is
\* dispatched, or raised and then the exception leaves on_message
AfterCommand(m, c) ==
    IF c.pc = "returned"
    THEN LET e == EventLoop("message", 0, <<>>, <<>>)
         IN  [msg |-> MessageDispatched(m, e), evt |-> e]
    ELSE IF c.pc = "raised"
    THEN [msg |-> [m EXCEPT !.pc = "raised"], evt |-> NoCall]
    ELSE [msg |-> [m EXCEPT !.pc = "in_command"], evt |-> NoCall]

\* ArtemisBot.on_message(message) up to its first suspension
on_message(author_bot, str, po, ro) ==
    /\ phase = "run"
    /\ msg.pc \in {"idle", "returned", "raised"}
    /\ content' = str
    /\ parse_pc' = "parsed"
    /\ IF author_bot
       THEN /\ parsed' = NoParsed
            /\ cmd' = NoCmdCall
            /\ evt' = NoCall
            /\ msg' = [NoMsg EXCEPT !.pc = "returned", !.bot = TRUE]
       ELSE /\ parsed' = parse(str, prefix)
            /\ IF ~parsed'.none
               THEN LET args == [i \in 1..Len(parsed'.args) |-> Join(parsed'.args[i])]
                        c == CommandCall(Join(parsed'.command), args, None, po, ro)
                        n == AfterCommand([NoMsg EXCEPT !.commands = 1], c)
                    IN  /\ cmd' = c
                        /\ evt' = n.evt
                        /\ msg' = n.msg
               ELSE LET e == EventLoop("message", 0, <<>>, <<>>)
                    IN  /\ cmd' = NoCmdCall
                        /\ evt' = e
                        /\ msg' = MessageDispatched(NoMsg, e)
    /\ UNCHANGED <<phase, event_listeners, command_listeners, command_help,
                   periodic_tasks, registrations, prefix, loadVars, periodicVars,
                   shipVars, storeVars, buildVars, shutdown>>

\* a command callback awaited by the handler's dispatch_command ends
MsgCommandCallbackEnds(o) ==
    /\ msg.pc = "in_command"
    /\ cmd.pc = "in_callback"
    /\ LET c == CommandLoop([cmd EXCEPT !.outcomes = Append(@, o)], cmd.idx)
           n == AfterCommand(msg, c)
       IN  /\ cmd' = c
           /\ evt' = n.evt
           /\ msg' = n.msg
    /\ UNCHANGED <<phase, event_listeners, command_listeners, command_help,
                   periodic_tasks, registrations, parseVars, loadVars, periodicVars,
                   shipVars, storeVars, buildVars, shutdown>>

\* a "message" callback awaited by the handler's dispatch_event ends
MsgEventCallbackEnds(o) ==
    /\ msg.pc = "in_event"
    /\ evt.pc = "in_callback"
    /\ evt' = EventLoop(evt.name, evt.idx, evt.invoked, Append(evt.outcomes, o))
    /\ msg' = [msg EXCEPT !.pc = IF evt'.pc = "returned" THEN "returned" ELSE "in_event"]
    /\ UNCHANGED <<phase, event_listeners, command_listeners, command_help,
                   periodic_tasks, registrations, cmd, parseVars, loadVars,
                   periodicVars, shipVars, storeVars, buildVars, shutdown>>

InitMsg == InitRegistry /\ InitParser /\ InitLoader

NextMsg ==
    \/ \E l \in MsgDescriptors : RegisterMsgListener(l)
    \/ Connect
    \/ \E b \in BOOLEAN, str \in MsgContents, po \in ProducerOutcomes, ro \in Outcomes :
           on_message(b, str, po, ro)
    \/ \E o \in Outcomes : MsgCommandCallbackEnds(o)
    \/ \E o \in Outcomes : MsgEventCallbackEnds(o)

SpecMsg == InitMsg /\ [][NextMsg]_vars

\* C33 as stated: for every keyword K registered with a callback, the
\* message made of the prefix followed by K is parsed to a command that
\* dispatch_command routes to K's listeners, whatever K's letter case.
KeywordRoutedWhateverCase ==
    \A k \in MsgKeywords :
        (msg.pc /= "idle" /\ ~msg.bot /\ content = prefix \o k
         /\ RegisteredForCommand(Join(k)) /= <<>>) =>
            /\ cmd.name = Join(k)
            /\ ~cmd.not_found

\* C34 as stated: for a message of a non-bot author the "message" event is
\* dispatched exactly once, and only after the command dispatch for that
\* message has finished; for a bot-authored message nothing is dispatched.
MessageEventOncePerMessage ==
    /\ (msg.pc \in {"returned", "raised"} /\ ~msg.bot) => msg.events = 1
    /\ msg.events <= 1
    /\ msg.events = 1 => cmd.pc \in {"idle", "returned", "raised"}
    /\ msg.bot => (msg.commands = 0 /\ msg.events = 0 /\ cmd = NoCmdCall /\ evt = NoCall)

\* ======================================================== JSONStore
MaxOps == 1

Keys == {"k1", "k2"}

IntV == [type |-> "int", repr |-> "1"]
ListV == [type |-> "list", repr |-> "[2]"]
TupleV == [type |-> "tuple", repr |-> "(2,)"]
ObjectV == [type |-> "object", repr |-> "<object>"]
Values == {IntV, ListV, TupleV, ObjectV}

\* json.dumps of a value: the JSON text, or TypeError
json_dumps(v) ==
    CASE v.type = "int" -> [raised |-> FALSE, text |-> v.repr]
      [] v.type = "list" -> [raised |-> FALSE, text |-> v.repr]
      [] v.type = "tuple" -> [raised |-> FALSE, text |-> "[2]"]
      [] v.type = "NoneType" -> [raised |-> FALSE, text |-> "null"]
      [] OTHER -> [raised |-> TRUE, text |-> ""]

\* json.loads of a JSON text
json_loads(text) ==
    CASE text = "1" -> IntV
      [] text = "[2]" -> ListV
      [] OTHER -> NoneV

\* the contents a namespace file can have: no text, text that is not JSON,
\* a JSON array, or a JSON object (doc: its members as JSON texts)
EmptyFile == [state |-> "empty", doc |-> NoData]
GarbageFile == [state |-> "garbage", doc |-> NoData]
ArrayFile == [state |-> "array", doc |-> NoData]
ObjectFile(doc) == [state |-> "object", doc |-> doc]

\* json.dumps(data, ...) of the local dict
DumpData(data) ==
    [raised |-> \E k \in DOMAIN data : json_dumps(data[k]).raised,
     doc |-> [k \in DOMAIN data |-> json_dumps(data[k]).text]]

\* the dict set and delete read: {} for an empty, corrupted or non-dict file
LoadData(f) ==
    IF f.state = "object" THEN [k \in DOMAIN f.doc |-> json_loads(f.doc[k])]
    ELSE NoData

\* what get returns when it reads f
GetResult(f, key) ==
    IF f.state = "object" /\ key \in DOMAIN f.doc THEN json_loads(f.doc[key])
    ELSE NoneV

\* del data[key]
DictDel(d, key) == [x \in (DOMAIN d) \ {key} |-> d[x]]

\* variant: set starts from an empty dict, whatever the file holds
SetData_Fresh(f, key, value) == DictPut(NoData, key, value)

\* set: the dict read from the file with data[key] = value
SetData(f, key, value) == DictPut(LoadData(f), key, value)

\* caller p takes a step that leaves its operation as rec; every other
\* operation that has begun is no longer alone
Stepped(p, rec) ==
    /\ ops' = [q \in Procs |->
                  IF q = p THEN rec
                  ELSE IF ops[q].pc = "idle" THEN ops[q]
                  ELSE [ops[q] EXCEPT !.alone = FALSE]]
    /\ UNCHANGED <<phase, event_listeners, command_listeners, command_help,
                   periodic_tasks, registrations, evt, cmd, parseVars, loadVars,
                   periodicVars, shipVars, buildVars, msg, shutdown>>

\* get, set or delete is called and awaits aiofiles.os.path.exists
Begin(p, op, key, value) ==
    /\ ops[p].pc \in {"idle", "done"}
    /\ ops[p].n < MaxOps
    /\ Stepped(p, [IdleOp EXCEPT !.pc = "exists", !.op = op, !.key = key,
                                 !.value = value, !.n = ops[p].n + 1,
                                 !.was = [k \in Keys |-> GetResult(file, k)],
                                 !.alone = \A q \in Procs \ {p} :
                                               ops[q].pc \in {"idle", "done"}])
    /\ UNCHANGED file

\* the path test returns: get and delete return at once when the file is
\* missing, set goes on to open the file for writing
ExistsReturns(p) ==
    /\ ops[p].pc = "exists"
    /\ LET o == ops[p]
       IN  Stepped(p,
               IF file.state /= "missing" THEN [o EXCEPT !.pc = "reading"]
               ELSE IF o.op = "get"
               THEN [o EXCEPT !.pc = "done", !.result = "value", !.got = NoneV]
               ELSE IF o.op = "delete"
               THEN [o EXCEPT !.pc = "done", !.result = "False"]
               ELSE [o EXCEPT !.pc = "opening",
                              !.data = DictPut(NoData, o.key, o.value)])
    /\ UNCHANGED file

\* the file has been opened and read
ReadReturns(p) ==
    /\ ops[p].pc = "reading"
    /\ LET o == ops[p]
       IN  Stepped(p,
               IF o.op = "get"
               THEN [o EXCEPT !.pc = "done", !.result = "value",
                              !.got = GetResult(file, o.key)]
               ELSE IF o.op = "set"
               THEN [o EXCEPT !.pc = "opening", !.data = SetData(file, o.key, o.value)]
               ELSE IF o.key \in DOMAIN LoadData(file)
               THEN [o EXCEPT !.pc = "opening", !.data = DictDel(LoadData(file), o.key)]
               ELSE [o EXCEPT !.pc = "done", !.result = "False"])
    /\ UNCHANGED file

\* aiofiles.open(file_path, 'w') returns: the file exists and is empty
OpenForWrite(p) ==
    /\ ops[p].pc = "opening"
    /\ Stepped(p, [ops[p] EXCEPT !.pc = "writing"])
    /\ file' = EmptyFile

\* json.dumps raises and the operation returns False, or the text is written
\* from offset 0 and the operation returns True; over a file that another
\* writer has filled in the meantime the text replaces the old one or, when
\* it is shorter, leaves its tail behind (torn)
WriteReturns(p, torn) ==
    /\ ops[p].pc = "writing"
    /\ torn => file.state /= "empty"
    /\ LET o == ops[p]
           out == DumpData(o.data)
       IN  IF out.raised
           THEN /\ ~torn
                /\ Stepped(p, [o EXCEPT !.pc = "done", !.result = "False"])
                /\ UNCHANGED file
           ELSE /\ Stepped(p, [o EXCEPT !.pc = "done", !.result = "True"])
                /\ file' = IF torn THEN GarbageFile ELSE ObjectFile(out.doc)

\* the namespace file a run starts with
InitialFiles ==
    {MissingFile, EmptyFile, GarbageFile, ArrayFile}
    \cup {ObjectFile(d) : d \in UNION {[ks -> {"1", "[2]"}] : ks \in SUBSET Keys}}

InitStore ==
    /\ InitTables
    /\ InitParser
    /\ InitLoader
    /\ testing_mode = FALSE
    /\ call_idx = 0
    /\ scan_idx = 0
    /\ file \in InitialFiles
    /\ ops = [p \in Procs |-> IdleOp]
    /\ msg = NoMsg
    /\ builder = NoBuilder
    /\ built = <<>>
    /\ shutdown = NotClosing

NextStore ==
    \/ \E p \in Procs, key \in Keys :
           \/ Begin(p, "get", key, NoneV)
           \/ Begin(p, "delete", key, NoneV)
           \/ \E value \in Values : Begin(p, "set", key, value)
    \/ \E p \in Procs : ExistsReturns(p)
    \/ \E p \in Procs : ReadReturns(p)
    \/ \E p \in Procs : OpenForWrite(p)
    \/ \E p \in Procs, torn \in BOOLEAN : WriteReturns(p, torn)

SpecStore == InitStore /\ [][NextStore]_vars

\* the operation of caller p has returned success
Succeeded(p, op) ==
    ops[p].pc = "done" /\ ops[p].op = op /\ ops[p].result = "True"

\* C31 as stated: two set operations on different keys of one namespace that
\* interleave at their suspension points both take effect: once both have
\* returned success, get returns the written value for each of the two keys.
InterleavedSetsBothTakeEffect ==
    (/\ Succeeded(1, "set") /\ Succeeded(2, "set")
     /\ ops[1].key /= ops[2].key
     /\ ops[1].n = 1 /\ ops[2].n = 1
     /\ json_loads(json_dumps(ops[1].value).text) = ops[1].value
     /\ json_loads(json_dumps(ops[2].value).text) = ops[2].value) =>
        /\ GetResult(file, ops[1].key) = ops[1].value
        /\ GetResult(file, ops[2].key) = ops[2].value

\* the keys other than the operation's keep what get returned for them
OtherKeysKept(p) ==
    \A k \in Keys \ {ops[p].key} : GetResult(file, k) = ops[p].was[k]

\* C38 as stated: with nothing interleaved, after set returns success get
\* returns that value and every other key keeps its value; after delete
\* returns success get returns none and the other keys are unchanged.
SetGetDeleteRoundTrip ==
    \A p \in Procs :
        ops[p].alone =>
            /\ Succeeded(p, "set") =>
                   (GetResult(file, ops[p].key) = ops[p].value /\ OtherKeysKept(p))
            /\ Succeeded(p, "delete") =>
                   (GetResult(file, ops[p].key) = NoneV /\ OtherKeysKept(p))

\* C38, amended: get returns the value as JSON gives it back, which is the
\* value itself for a value JSON represents faithfully (a tuple comes back
\* as a list).
SetGetDeleteJsonRoundTrip ==
    \A p \in Procs :
        ops[p].alone =>
            /\ Succeeded(p, "set") =>
                   /\ GetResult(file, ops[p].key) = json_loads(json_dumps(ops[p].value).text)
                   /\ ops[p].value \in {IntV, ListV} =>
                          GetResult(file, ops[p].key) = ops[p].value
                   /\ OtherKeysKept(p)
            /\ Succeeded(p, "delete") =>
                   (GetResult(file, ops[p].key) = NoneV /\ OtherKeysKept(p))

\* witness of C38: a set of a tuple returned success with nothing
\* interleaved, in a namespace that holds another key
SetGetDeleteJsonRoundTripWitness ==
    \E p \in Procs :
        /\ ops[p].alone
        /\ Succeeded(p, "set")
        /\ ops[p].value = TupleV
        /\ \E k \in Keys \ {ops[p].key} : ops[p].was[k] /= NoneV

\* witness of C38, delete: a delete returned success with nothing
\* interleaved, in a namespace that holds another key
DeleteKeepsOtherKeysWitness ==
    \E p \in Procs :
        /\ ops[p].alone
        /\ Succeeded(p, "delete")
        /\ ops[p].was[ops[p].key] /= NoneV
        /\ \E k \in Keys \ {ops[p].key} : ops[p].was[k] /= NoneV

====
